---- MODULE Spec2Model ----
(***************************************************************************)
(* Document-to-text extraction pipeline of Humata-AI (server/groq.ts and   *)
(* its PDF-merging variant): the OCR attempt-1/attempt-2 protocol, the     *)
(* preprocessing fallback tiers, the LLM text corrector, the chunked PDF   *)
(* merger, the heading detector, the retry of sendChatMessage and the      *)
(* pixel operations (dilation, erosion, closing, opening, adaptive         *)
(* threshold).                                                             *)
(*                                                                         *)
(* A JavaScript string is modelled exactly as a "sparse string": its       *)
(* length together with the characters at the positions that do not hold  *)
(* the filler letter "x".  Slicing, concatenation, trim and lastIndexOf    *)
(* are computed on that representation, so a 12000-character document     *)
(* costs no more than its few '.' and newline characters.                 *)
(***************************************************************************)
EXTENDS Integers, Sequences, FiniteSets, TLC

VARIABLES
    GROQ_API_KEY,   \* module constant: TRUE iff process.env.GROQ_API_KEY is set
    requests,       \* the extraction requests (recognize calls) that are running
    ocrPc,          \* per request: the await at which extractTextFromImageWithOCR is suspended
    preCalls,       \* per request: the attempts preprocessImageForOCR was invoked with, in order
    preOut,         \* per request: what each preprocessing invocation did (tiers tried, buffer or throw)
    recCalls,       \* per request: the buffers handed to Tesseract.recognize, in order
    recOut,         \* per request: what each recognition call gave (text or throw)
    ocrRawText,     \* per request: the local rawText (trimmed recognition text)
    corrCalls,      \* per request: the inputs correctArabicOCRText was invoked with
    corrOut,        \* per request: per correction, the collaborator outcome and the value returned
    ocrResult,      \* per request: how the promise of extractTextFromImageWithOCR settled
    mergePc,        \* the await at which smartMergeMultiPagePDF is suspended
    mergeRawText,   \* its argument rawText
    chunks,         \* its local chunks
    processedChunks,\* its local processedChunks
    chunkCollab,    \* what the collaborator did for each chunk processed so far
    mergeLog,       \* the collaborator calls of the merge: their starts and finishes, in order
    mergeResult,    \* how the promise of smartMergeMultiPagePDF settled
    detectPc,       \* the await at which detectHeadingsFromText is suspended
    detectRawText,  \* its argument rawText
    detectCalls,    \* the texts it sent to the heading collaborator
    detectCollab,   \* what the collaborator did for each call
    detectResult,   \* how the promise of detectHeadingsFromText settled
    chatPc,         \* the await at which sendChatMessage (or its recursive call) is suspended
    chatLog,        \* what groq.chat.completions.create did for each request of the chat call
    chatResult,     \* how the promise of sendChatMessage settled
    imgIn,          \* the raw pixels decoded from the buffer handed to an image operation
    imgOp,          \* the image operation applied, with its parameters
    imgOut,         \* the raw pixels the operation encoded into the buffer it returned
    skewPc,         \* the await at which estimateSkewAngle is suspended
    skewSeen,       \* the variance it computed for each test angle so far, in order
    bestAngle,      \* its local bestAngle
    maxVariance,    \* its local maxVariance
    skewResult,     \* how the promise of estimateSkewAngle settled
    keys,           \* GeminiKeyManager.keys, the state of each configured key, in order
    now,            \* the clock, Date.now()
    inFlight,       \* per key, the concurrent requests that hold it and have not reported yet
    keyCall,        \* the last call a concurrent request made on the manager
    plainSince,     \* per key, the failures other than quota ones reported since its last success or recovery
    cooling,        \* the keys put on cooldown that no scan has met after the expiry yet
    gemPc,          \* the await at which analyzeImageWithGemini is suspended
    gemKey,         \* the key its current attempt holds
    gemTried,       \* its attempts so far, in order
    gemResult       \* how its promise settled

ocrVars == <<requests, ocrPc, preCalls, preOut, recCalls, recOut, ocrRawText,
             corrCalls, corrOut, ocrResult>>

mergeVars == <<mergePc, mergeRawText, chunks, processedChunks, chunkCollab,
               mergeLog, mergeResult>>

detectVars == <<detectPc, detectRawText, detectCalls, detectCollab, detectResult>>

chatVars == <<chatPc, chatLog, chatResult>>

imageVars == <<imgIn, imgOp, imgOut>>

skewVars == <<skewPc, skewSeen, bestAngle, maxVariance, skewResult>>

geminiVars == <<keys, now, inFlight, keyCall, plainSince, cooling, gemPc, gemKey, gemTried, gemResult>>

notOcr == <<mergeVars, detectVars, chatVars, imageVars, skewVars, geminiVars>>

notMerge == <<ocrVars, detectVars, chatVars, imageVars, skewVars, geminiVars>>

notDetect == <<ocrVars, mergeVars, chatVars, imageVars, skewVars, geminiVars>>

notChat == <<ocrVars, mergeVars, detectVars, imageVars, skewVars, geminiVars>>

notImage == <<ocrVars, mergeVars, detectVars, chatVars, skewVars, geminiVars>>

notSkew == <<ocrVars, mergeVars, detectVars, chatVars, imageVars, geminiVars>>

notGemini == <<ocrVars, mergeVars, detectVars, chatVars, imageVars, skewVars>>

(***************************************************************************)
(* Bounds of the model.                                                    *)
(***************************************************************************)
MaxRequests == 2

\* The most '.' and newline characters an input document holds.
MaxBreaks == 2

RequestIds == 1..MaxRequests

\* The most requests one chat call is followed through.
MaxChatCalls == 4

\* The most pixels of an image handed to an image operation.
MaxPixels == 9

\* The most keys configured for the key manager.
MaxKeys == 2

\* The most concurrent requests that hold the same key.
MaxInFlight == 3

\* The clock advances by steps of half a cooldown, up to MaxNow.
ClockStep == 30000

MaxNow == 150000

(***************************************************************************)
(* Strings.                                                                *)
(***************************************************************************)
Filler == "x"

Max(S) == CHOOSE m \in S : \A k \in S : k <= m

Min(S) == CHOOSE m \in S : \A k \in S : m <= k

\* The string whose characters are the elements of the sequence s.
Str(s) ==
    [len |-> Len(s),
     marks |-> [i \in {j \in 0..(Len(s) - 1) : s[j + 1] # Filler} |-> s[i + 1]]]

EmptyText == Str(<<>>)

\* n filler letters with the characters of the function m put at its positions.
Doc(n, m) == [len |-> n, marks |-> m]

\* A string literal of the source kept as one opaque symbol.
Lit(s) == Str(<<s>>)

CharAt(t, i) == IF i \in DOMAIN t.marks THEN t.marks[i] ELSE Filler

\* String.prototype.slice(a, b) for 0 <= a <= b <= length.
Slice(t, a, b) ==
    [len |-> b - a,
     marks |-> [i \in {j - a : j \in {k \in DOMAIN t.marks : k >= a /\ k < b}}
                    |-> t.marks[i + a]]]

\* s + t
Concat(s, t) ==
    [len |-> s.len + t.len,
     marks |-> [i \in DOMAIN s.marks \cup {j + s.len : j \in DOMAIN t.marks}
                    |-> IF i < s.len THEN s.marks[i] ELSE t.marks[i - s.len]]]

IsSpace(c) == c \in {" ", "\n"}

\* String.prototype.trim(): leading and trailing white space and line
\* terminators removed.
Trim(t) ==
    LET spaces == {i \in DOMAIN t.marks : IsSpace(t.marks[i])}
        lead   == Min({i \in 0..Cardinality(spaces) : i \notin spaces})
        trail  == Min({k \in 0..Cardinality(spaces) : (t.len - 1 - k) \notin spaces})
    IN  IF lead >= t.len THEN EmptyText ELSE Slice(t, lead, t.len - trail)

\* String.prototype.lastIndexOf(ch, from) for a one-character ch other than
\* the filler: the last index <= from holding ch, or -1.
lastIndexOf(t, ch, from) ==
    LET hits == {i \in DOMAIN t.marks : t.marks[i] = ch /\ i <= from}
    IN  IF hits = {} THEN -1 ELSE Max(hits)

\* JavaScript truthiness of a string.
Truthy(t) == t.len > 0

(***************************************************************************)
(* Outcome of an awaited promise.                                          *)
(***************************************************************************)
Return(v) == [kind |-> "return", value |-> v]

Throw(e) == [kind |-> "throw", value |-> Lit(e)]

Pending == [kind |-> "pending", value |-> EmptyText]

(***************************************************************************)
(* The text-completion collaborator (groq.chat.completions.create): it     *)
(* throws, or answers with no content, or answers with a content string.   *)
(***************************************************************************)
CollabThrow == [kind |-> "throw", text |-> EmptyText]

CollabNone == [kind |-> "none", text |-> EmptyText]

CollabText(t) == [kind |-> "text", text |-> t]

\* completion.choices[0]?.message?.content?.trim(): undefined without
\* content, else the trimmed content.
ContentTrim(c) == IF c.kind = "text" THEN Trim(c.text) ELSE EmptyText

(***************************************************************************)
(* preprocessImageForOCR                                                   *)
(***************************************************************************)
\* The awaited stages of the main sequence, in order.
MainStages ==
    <<"metadata", "grayscale", "normalize", "linear", "median", "sharpen",
      "resize", "deskew", "threshold", "closing", "opening">>

contrastMultiplierTimes10(attempt) == IF attempt = 1 THEN 13 ELSE 15

blockSize(attempt) == IF attempt = 1 THEN 21 ELSE 31

thresholdC(attempt) == IF attempt = 1 THEN 8 ELSE 12

closingKernelSize(attempt) == IF attempt = 1 THEN 3 ELSE 5

openingKernelSize(attempt) == IF attempt = 1 THEN 2 ELSE 3

\* The environment of one invocation: the main stage that throws (0: none),
\* and whether the simplified and the grayscale-only sequences throw.
StageFailures ==
    [main : 0..Len(MainStages), simplified : BOOLEAN, grayscale : BOOLEAN]

\* The catch block's guard for the simplified retry.
RetrySimplified(attempt) == attempt < 2

\* The last statement of the catch block: its promise is returned as is,
\* so a rejection of the grayscale-only sequence is the function's own.
GrayscaleOnly(attempt, fails) ==
    [threw |-> fails.grayscale,
     buffer |-> [tier |-> IF fails.grayscale THEN "none" ELSE "grayscale",
                 attempt |-> attempt]]

\* The preprocessing of one buffer: the tiers tried, in order, and either
\* the buffer returned or the rejection.
preprocessImageForOCR(attempt, fails) ==
    IF fails.main = 0
    THEN [tiers |-> <<"full">>, threw |-> FALSE,
          buffer |-> [tier |-> "full", attempt |-> attempt]]
    ELSE IF RetrySimplified(attempt) /\ ~fails.simplified
    THEN [tiers |-> <<"full", "simplified">>, threw |-> FALSE,
          buffer |-> [tier |-> "simplified", attempt |-> attempt]]
    ELSE LET g == GrayscaleOnly(attempt, fails)
         IN  [tiers |-> IF RetrySimplified(attempt)
                         THEN <<"full", "simplified", "grayscale">>
                         ELSE <<"full", "grayscale">>,
              threw |-> g.threw, buffer |-> g.buffer]

(***************************************************************************)
(* correctArabicOCRText                                                    *)
(***************************************************************************)
MIN_CORRECT_LENGTH == 5

\* Whether the function reaches groq.chat.completions.create.
CorrectCallsCollaborator(rawText, key) ==
    key /\ Truthy(rawText) /\ rawText.len >= MIN_CORRECT_LENGTH

correctArabicOCRTextAlt(rawText, key, collab) ==
    IF ~CorrectCallsCollaborator(rawText, key) THEN Return(rawText)
    ELSE IF collab.kind = "throw" THEN Throw("collaborator error")
    ELSE Return(ContentTrim(collab))

\* collab is the collaborator's behaviour, used only when it is called.
correctArabicOCRText(rawText, key, collab) ==
    IF ~key THEN Return(rawText)
    ELSE IF ~Truthy(rawText) \/ rawText.len < MIN_CORRECT_LENGTH THEN Return(rawText)
    ELSE IF collab.kind = "throw" THEN Return(rawText)
    ELSE LET correctedText == ContentTrim(collab)
         IN  IF ~Truthy(correctedText) THEN Return(rawText) ELSE Return(correctedText)

(***************************************************************************)
(* extractTextFromImageWithOCR                                             *)
(***************************************************************************)
MIN_OCR_LENGTH == 3

NO_TEXT_SENTINEL == Lit("[image - no readable text was found in the image]")

FAILED_SENTINEL == Lit("[image - failed to extract the text from the image]")

OCR_HEADER == Concat(Lit("[text extracted from the image with enhanced OCR]:"), Str(<<"\n">>))

\* !rawText || rawText.length < 3
TooShort(rawText) == ~Truthy(rawText) \/ rawText.len < MIN_OCR_LENGTH

\* The catch block of the function: whatever was thrown inside the try.
ExtractCatchAlt(e) == Throw(e)

ExtractCatch(e) == Return(FAILED_SENTINEL)

\* What the recognition engine can give for one call.
RecTexts ==
    {Str(<<>>), Str(<<" ", "\n">>), Str(<<"a", "b">>), Str(<<" ", "a", "b", "\n">>),
     Str(<<"a", "b", "c">>), Str(<<"\n", "c", "d", "e", "f", " ">>),
     Str(<<"a", " ", "b", "c", "d">>), Str(<<"c", "d", "e", "f", "g", "h">>)}

RecOutcomes ==
    {[kind |-> "throw", text |-> EmptyText]} \cup {[kind |-> "text", text |-> t] : t \in RecTexts}

\* What the correction collaborator can do for one call.
CorrTexts == {Str(<<>>), Str(<<" ", "\n", " ">>), Str(<<" ", "A", "B", "\n">>), Str(<<"A", "B", "C", "D", "E">>)}

CorrOutcomes == {CollabThrow, CollabNone} \cup {CollabText(t) : t \in CorrTexts}

AttemptOf(pc) == IF pc \in {"pre1", "rec1"} THEN 1 ELSE 2

\* The call enters the try block and awaits preprocessImageForOCR(buffer, 1).
OcrStart(r) ==
    /\ r \in requests
    /\ ocrPc[r] = "idle"
    /\ ocrPc' = [ocrPc EXCEPT ![r] = "pre1"]
    /\ preCalls' = [preCalls EXCEPT ![r] = Append(@, 1)]
    /\ UNCHANGED <<notOcr, GROQ_API_KEY, requests, preOut, recCalls, recOut, ocrRawText,
                   corrCalls, corrOut, ocrResult>>

\* The awaited preprocessing settles: with a buffer, handed at once to
\* Tesseract.recognize, or with a rejection, which the catch block receives.
OcrPreprocessDone(r) ==
    /\ r \in requests
    /\ ocrPc[r] \in {"pre1", "pre2"}
    /\ \E fails \in StageFailures :
         LET attempt == AttemptOf(ocrPc[r])
             out == preprocessImageForOCR(attempt, fails)
         IN  /\ preOut' = [preOut EXCEPT ![r] = Append(@, out)]
             /\ IF out.threw
                THEN /\ ocrResult' = [ocrResult EXCEPT ![r] = ExtractCatch("preprocess")]
                     /\ ocrPc' = [ocrPc EXCEPT ![r] = "done"]
                     /\ UNCHANGED recCalls
                ELSE /\ recCalls' = [recCalls EXCEPT ![r] = Append(@, out.buffer)]
                     /\ ocrPc' = [ocrPc EXCEPT ![r] = IF attempt = 1 THEN "rec1" ELSE "rec2"]
                     /\ UNCHANGED ocrResult
    /\ UNCHANGED <<notOcr, GROQ_API_KEY, requests, preCalls, recOut, ocrRawText, corrCalls, corrOut>>

\* A rawText declared once for the module: every call uses the same one.
RawTextSlotAlt(r) == 1

\* let rawText: a local of the call, one for each request.
RawTextSlot(r) == r

\* The decision taken on the trimmed text of the first recognition.
RetryWithSecond(rawText) == TooShort(rawText)

\* The decision taken on the trimmed text of the second recognition.
GiveUpAfterSecondAlt(rawText) == FALSE

GiveUpAfterSecond(rawText) == TooShort(rawText)

\* The awaited recognition settles.  A rejection goes to the catch block.  A
\* text is trimmed; after the first recognition a too short text makes the
\* function await preprocessImageForOCR(buffer, 2), after the second it makes
\* it return the no-text sentinel; otherwise correctArabicOCRText is awaited.
OcrRecognizeDone(r) ==
    /\ r \in requests
    /\ ocrPc[r] \in {"rec1", "rec2"}
    /\ \E out \in RecOutcomes :
         LET attempt == AttemptOf(ocrPc[r])
             rawText == Trim(out.text)
         IN  /\ recOut' = [recOut EXCEPT ![r] = Append(@, out)]
             /\ IF out.kind = "throw"
                THEN /\ ocrResult' = [ocrResult EXCEPT ![r] = ExtractCatch("recognize")]
                     /\ ocrPc' = [ocrPc EXCEPT ![r] = "done"]
                     /\ UNCHANGED <<ocrRawText, preCalls, corrCalls>>
                ELSE /\ ocrRawText' = [ocrRawText EXCEPT ![RawTextSlot(r)] = rawText]
                     /\ IF attempt = 1 /\ RetryWithSecond(rawText)
                        THEN /\ preCalls' = [preCalls EXCEPT ![r] = Append(@, 2)]
                             /\ ocrPc' = [ocrPc EXCEPT ![r] = "pre2"]
                             /\ UNCHANGED <<ocrResult, corrCalls>>
                        ELSE IF attempt = 2 /\ GiveUpAfterSecond(rawText)
                        THEN /\ ocrResult' = [ocrResult EXCEPT ![r] = Return(NO_TEXT_SENTINEL)]
                             /\ ocrPc' = [ocrPc EXCEPT ![r] = "done"]
                             /\ UNCHANGED <<preCalls, corrCalls>>
                        ELSE /\ corrCalls' = [corrCalls EXCEPT ![r] = Append(@, rawText)]
                             /\ ocrPc' = [ocrPc EXCEPT ![r] = "correct"]
                             /\ UNCHANGED <<preCalls, ocrResult>>
    /\ UNCHANGED <<notOcr, GROQ_API_KEY, requests, preOut, recCalls, corrOut>>

\* The awaited correction settles and the function returns the header and
\* the corrected text; a rejection would go to the catch block.
OcrCorrectDone(r) ==
    /\ r \in requests
    /\ ocrPc[r] = "correct"
    /\ \E collab \in CorrOutcomes :
         LET rawText == ocrRawText[RawTextSlot(r)]
             c == correctArabicOCRText(rawText, GROQ_API_KEY, collab)
             called == CorrectCallsCollaborator(rawText, GROQ_API_KEY)
         IN  /\ corrOut' = [corrOut EXCEPT ![r] =
                    Append(@, [input |-> rawText, called |-> called,
                               collab |-> IF called THEN collab ELSE CollabNone,
                               out |-> c])]
             /\ ocrResult' = [ocrResult EXCEPT ![r] =
                    IF c.kind = "throw" THEN ExtractCatch("correct")
                    ELSE Return(Concat(OCR_HEADER, c.value))]
    /\ ocrPc' = [ocrPc EXCEPT ![r] = "done"]
    /\ UNCHANGED <<notOcr, GROQ_API_KEY, requests, preCalls, preOut, recCalls, recOut,
                   ocrRawText, corrCalls>>

(***************************************************************************)
(* smartMergeMultiPagePDF, processSingleChunk, cleanPDFChunk               *)
(***************************************************************************)
MIN_MERGE_LENGTH == 50

MAX_CHARS_PER_CHUNK == 6000

\* The two early returns: no API key, or a text that is empty or too short.
MergeSkipsAlt(rawText, key) == ~Truthy(rawText) \/ rawText.len < MIN_MERGE_LENGTH

MergeSkips(rawText, key) ==
    ~key \/ ~Truthy(rawText) \/ rawText.len < MIN_MERGE_LENGTH

\* A splitting loop that never backs off to a sentence or line break.
EndPosAlt(rawText, currentPos) ==
    IF currentPos + MAX_CHARS_PER_CHUNK < rawText.len
    THEN currentPos + MAX_CHARS_PER_CHUNK ELSE rawText.len

\* One pass of the splitting loop's body: the endPos of the chunk that
\* starts at currentPos.  (breakPoint > currentPos + MAX_CHARS_PER_CHUNK / 2
\* is compared on doubled values, which is exact for every chunk size.)
EndPos(rawText, currentPos) ==
    LET endPos == IF currentPos + MAX_CHARS_PER_CHUNK < rawText.len
                  THEN currentPos + MAX_CHARS_PER_CHUNK ELSE rawText.len
    IN  IF endPos < rawText.len
        THEN LET lastPeriod  == lastIndexOf(rawText, ".", endPos)
                 lastNewline == lastIndexOf(rawText, "\n", endPos)
                 breakPoint  == IF lastPeriod > lastNewline THEN lastPeriod ELSE lastNewline
             IN  IF 2 * breakPoint > 2 * currentPos + MAX_CHARS_PER_CHUNK
                 THEN breakPoint + 1 ELSE endPos
        ELSE endPos

\* currentPos = endPos
NextPosAlt(endPos) == endPos + 1

NextPos(endPos) == endPos

\* The splitting loop: the [from, to) positions of the chunks, in order.
RECURSIVE SplitSpans(_, _, _)
SplitSpans(rawText, currentPos, spans) ==
    IF currentPos < rawText.len
    THEN LET endPos == EndPos(rawText, currentPos)
         IN  SplitSpans(rawText, NextPos(endPos),
                        Append(spans, [from |-> currentPos, to |-> endPos]))
    ELSE spans

\* chunks.push(rawText.slice(currentPos, endPos)) for every pass of the loop.
SplitChunks(rawText) ==
    LET spans == SplitSpans(rawText, 0, <<>>)
    IN  [k \in 1..Len(spans) |-> Slice(rawText, spans[k].from, spans[k].to)]

\* processSingleChunk: the collaborator's trimmed answer, or rawText when it
\* throws or answers nothing.
processSingleChunk(rawText, collab) ==
    IF collab.kind = "throw" THEN Return(rawText)
    ELSE LET mergedText == ContentTrim(collab)
         IN  IF ~Truthy(mergedText) THEN Return(rawText) ELSE Return(mergedText)

\* cleanPDFChunk has no try: a collaborator error is its own rejection.
cleanPDFChunkAlt(chunk, isFirst, isLast, collab) ==
    IF collab.kind = "throw" THEN Throw("collaborator error")
    ELSE Return(ContentTrim(collab))

cleanPDFChunk(chunk, isFirst, isLast, collab) ==
    IF collab.kind = "throw" THEN Throw("collaborator error")
    ELSE LET content == ContentTrim(collab)
         IN  Return(IF Truthy(content) THEN content ELSE chunk)

\* The body of the per-chunk loop: try { push(await cleanPDFChunk(..)) }
\* catch { push(chunks[i]) }.
PushProcessedAlt(processed, chunk, cleaned) ==
    IF cleaned.kind = "throw" THEN <<chunk>> \o processed
    ELSE <<cleaned.value>> \o processed

PushProcessed(processed, chunk, cleaned) ==
    IF cleaned.kind = "throw" THEN Append(processed, chunk)
    ELSE Append(processed, cleaned.value)

Separator == Str(<<"\n", "\n">>)

\* Array.prototype.join('\n\n')
RECURSIVE Join(_)
Join(parts) ==
    IF parts = <<>> THEN EmptyText
    ELSE IF Len(parts) = 1 THEN parts[1]
    ELSE Concat(Concat(parts[1], Separator), Join(Tail(parts)))

\* The flags the loop passes with chunk number i (from 0) of n.
ChunkFlags(i, n) == [isFirst |-> i = 0, isLast |-> i = n - 1]

\* The collaborator call that starts for chunk number i (from 0).
StartEvent(i, list) ==
    [ev |-> "start", fn |-> "cleanPDFChunk", i |-> i, chunk |-> list[i + 1],
     isFirst |-> ChunkFlags(i, Len(list)).isFirst,
     isLast |-> ChunkFlags(i, Len(list)).isLast]

FinishEvent(i, list) ==
    [ev |-> "finish", fn |-> "cleanPDFChunk", i |-> i, chunk |-> list[i + 1],
     isFirst |-> ChunkFlags(i, Len(list)).isFirst,
     isLast |-> ChunkFlags(i, Len(list)).isLast]

SingleEvent(ev, rawText) ==
    [ev |-> ev, fn |-> "processSingleChunk", i |-> 0, chunk |-> rawText,
     isFirst |-> TRUE, isLast |-> TRUE]

\* The documents handed to the merger: a length, and '.' or newline
\* characters at some of the positions around the chunk boundaries.
MergeLengths == {0, 49, 50, 3000, 6000, 6001, 9002, 12001, 12002}

BreakPositions == {2999, 3000, 3001, 5999, 6000, 9001, 12000}

BreakChars == {".", "\n"}

MergeInputs ==
    UNION {{Doc(n, m) : m \in [S -> BreakChars]} :
           <<n, S>> \in {<<n, S>> \in MergeLengths \X SUBSET BreakPositions :
                            /\ Cardinality(S) <= MaxBreaks
                            /\ \A q \in S : q < n}}

\* What the merge collaborator can do for one call.
MergeTexts == {Str(<<" ", "\n">>), Str(<<" ", "M", ".", "\n">>), Str(<<"N", "\n", "N">>)}

MergeOutcomes == {CollabThrow, CollabNone} \cup {CollabText(t) : t \in MergeTexts}

\* The call returns rawText at one of the two early returns.
MergeSkip ==
    /\ mergePc = "idle"
    /\ MergeSkips(mergeRawText, GROQ_API_KEY)
    /\ mergeResult' = Return(mergeRawText)
    /\ mergePc' = "done"
    /\ UNCHANGED <<notMerge, GROQ_API_KEY, mergeRawText, chunks, processedChunks, chunkCollab, mergeLog>>

\* A text of at most MAX_CHARS_PER_CHUNK characters: processSingleChunk is awaited.
MergeSingleStart ==
    /\ mergePc = "idle"
    /\ ~MergeSkips(mergeRawText, GROQ_API_KEY)
    /\ mergeRawText.len <= MAX_CHARS_PER_CHUNK
    /\ mergeLog' = Append(mergeLog, SingleEvent("start", mergeRawText))
    /\ mergePc' = "single"
    /\ UNCHANGED <<notMerge, GROQ_API_KEY, mergeRawText, chunks, processedChunks, chunkCollab, mergeResult>>

MergeSingleDone ==
    /\ mergePc = "single"
    /\ \E collab \in MergeOutcomes :
         /\ mergeResult' = processSingleChunk(mergeRawText, collab)
         /\ chunkCollab' = Append(chunkCollab, collab)
    /\ mergeLog' = Append(mergeLog, SingleEvent("finish", mergeRawText))
    /\ mergePc' = "done"
    /\ UNCHANGED <<notMerge, GROQ_API_KEY, mergeRawText, chunks, processedChunks>>

\* A longer text: the splitting loop runs, and the per-chunk loop awaits
\* cleanPDFChunk for the first chunk.
MergeSplit ==
    /\ mergePc = "idle"
    /\ ~MergeSkips(mergeRawText, GROQ_API_KEY)
    /\ mergeRawText.len > MAX_CHARS_PER_CHUNK
    /\ chunks' = SplitChunks(mergeRawText)
    /\ mergeLog' = Append(mergeLog, StartEvent(0, chunks'))
    /\ mergePc' = "chunk"
    /\ UNCHANGED <<notMerge, GROQ_API_KEY, mergeRawText, processedChunks, chunkCollab, mergeResult>>

\* The awaited cleanPDFChunk of chunk number i settles: its result, or the
\* raw chunk when it rejected, is pushed; then the next chunk's call starts,
\* or after the last chunk the results are joined and returned.
MergeChunkDone ==
    /\ mergePc = "chunk"
    /\ \E collab \in MergeOutcomes :
         LET i == Len(processedChunks)
             flags == ChunkFlags(i, Len(chunks))
             cleaned == cleanPDFChunk(chunks[i + 1], flags.isFirst, flags.isLast, collab)
             processed == PushProcessed(processedChunks, chunks[i + 1], cleaned)
         IN  /\ processedChunks' = processed
             /\ chunkCollab' = Append(chunkCollab, collab)
             /\ IF i + 1 < Len(chunks)
                THEN /\ mergeLog' = mergeLog \o <<FinishEvent(i, chunks), StartEvent(i + 1, chunks)>>
                     /\ UNCHANGED <<mergePc, mergeResult>>
                ELSE /\ mergeLog' = Append(mergeLog, FinishEvent(i, chunks))
                     /\ mergeResult' = Return(Join(processed))
                     /\ mergePc' = "done"
    /\ UNCHANGED <<notMerge, GROQ_API_KEY, mergeRawText, chunks>>

MergeIdle ==
    /\ mergePc = "idle"
    /\ mergeRawText = EmptyText
    /\ chunks = <<>>
    /\ processedChunks = <<>>
    /\ chunkCollab = <<>>
    /\ mergeLog = <<>>
    /\ mergeResult = Pending

(***************************************************************************)
(* detectHeadingsFromText                                                  *)
(*                                                                         *)
(* A collaborator response is a string of lexical symbols: "[", "]", ","   *)
(* and white space stand for themselves; "S" and "T" each stand for the    *)
(* text of one well-formed section object, "n" for the literal null, "1"   *)
(* for a number, "{" for an object that is cut short, and every other      *)
(* character is prose.                                                     *)
(***************************************************************************)
MIN_DETECT_LENGTH == 100

MAX_CHARS == 8000

DEFAULT_TITLE == Lit("content")

Section(type, title, content) ==
    [kind |-> "object", items |-> <<>>, type |-> type, title |-> title, content |-> content]

JsonScalar(kind) ==
    [kind |-> kind, items |-> <<>>, type |-> "", title |-> EmptyText, content |-> EmptyText]

JsonArray(items) ==
    [kind |-> "array", items |-> items, type |-> "", title |-> EmptyText, content |-> EmptyText]

\* The JavaScript value each one-symbol JSON text denotes.
JsonAtom(c) ==
    CASE c = "S" -> Section("main", Lit("title-S"), Str(<<"s", ".", "s">>))
      [] c = "T" -> Section("sub", Lit("title-T"), Str(<<"t", "t">>))
      [] c = "n" -> JsonScalar("null")
      [] c = "1" -> JsonScalar("number")

JsonAtoms == {"S", "T", "n", "1"}

ParseFail == [ok |-> FALSE, next |-> 0, val |-> JsonScalar("null")]

\* The first index >= i that holds no white space (the length at the end).
SkipWs(t, i) == Min({j \in i..t.len : j = t.len \/ ~IsSpace(CharAt(t, j))})

SymbolAt(t, i) == IF i < t.len THEN CharAt(t, i) ELSE "EOF"

\* JSON.parse: a value is an array of values or one of the atoms.
RECURSIVE ParseValue(_, _), ParseElements(_, _, _)
ParseValue(t, i0) ==
    LET i == SkipWs(t, i0)
        c == SymbolAt(t, i)
    IN  IF c = "["
        THEN IF SymbolAt(t, SkipWs(t, i + 1)) = "]"
             THEN [ok |-> TRUE, next |-> SkipWs(t, i + 1) + 1, val |-> JsonArray(<<>>)]
             ELSE ParseElements(t, i + 1, <<>>)
        ELSE IF c \in JsonAtoms
        THEN [ok |-> TRUE, next |-> i + 1, val |-> JsonAtom(c)]
        ELSE ParseFail

ParseElements(t, i, acc) ==
    LET v == ParseValue(t, i)
    IN  IF ~v.ok THEN ParseFail
        ELSE LET j == SkipWs(t, v.next)
                 c == SymbolAt(t, j)
             IN  IF c = "," THEN ParseElements(t, j + 1, Append(acc, v.val))
                 ELSE IF c = "]"
                 THEN [ok |-> TRUE, next |-> j + 1, val |-> JsonArray(Append(acc, v.val))]
                 ELSE ParseFail

\* JSON.parse(text): the value, or ok = FALSE for a SyntaxError.
JSONparse(t) ==
    LET v == ParseValue(t, 0)
    IN  IF v.ok /\ SkipWs(t, v.next) = t.len THEN v ELSE ParseFail

\* responseText.match(/\[[\s\S]*\]/): from the first "[" that has a "]"
\* after it to the last "]" of the string; found = FALSE for null.
MatchArray(t) ==
    LET opens  == {i \in DOMAIN t.marks : t.marks[i] = "["}
        closes == {i \in DOMAIN t.marks : t.marks[i] = "]"}
    IN  IF opens # {} /\ closes # {} /\ Min(opens) < Max(closes)
        THEN [found |-> TRUE, text |-> Slice(t, Min(opens), Max(closes) + 1)]
        ELSE [found |-> FALSE, text |-> EmptyText]

StructuredDocument(sections, plainText) == [sections |-> sections, plainText |-> plainText]

defaultResult(rawText) ==
    StructuredDocument(<<Section("main", DEFAULT_TITLE, rawText)>>, rawText)

\* The two early returns of the function.
DetectSkips(rawText, key) ==
    ~key \/ ~Truthy(rawText) \/ rawText.len < MIN_DETECT_LENGTH

textToProcess(rawText) ==
    IF rawText.len > MAX_CHARS THEN Slice(rawText, 0, MAX_CHARS) ELSE rawText

\* ${s.title} and ${s.content} in the template literal: a property of a
\* value that has none reads as "undefined".
TemplateField(s, field) ==
    IF s.kind = "object" THEN (IF field = "title" THEN s.title ELSE s.content)
    ELSE Lit("undefined")

\* sections.map(s => `${s.title}\n\n${s.content}`)
SectionTexts(sections) ==
    [k \in 1..Len(sections) |->
        Concat(Concat(TemplateField(sections[k], "title"), Separator),
               TemplateField(sections[k], "content"))]

\* Reading a property of null throws a TypeError.
MapThrows(sections) == \E k \in 1..Len(sections) : sections[k].kind = "null"

\* The response has no JSON array: return defaultResult.
NoMatchResultAlt(rawText) == StructuredDocument(<<>>, EmptyText)

NoMatchResult(rawText) == defaultResult(rawText)

\* The function's body after the collaborator settled.
detectFromResponse(rawText, collab) ==
    IF collab.kind = "throw" THEN Return(defaultResult(rawText))
    ELSE LET responseText == ContentTrim(collab)
         IN  IF ~Truthy(responseText) THEN Return(defaultResult(rawText))
             ELSE LET jsonMatch == MatchArray(responseText)
                  IN  IF ~jsonMatch.found THEN Return(NoMatchResult(rawText))
                      ELSE LET parsed == JSONparse(jsonMatch.text)
                           IN  IF ~parsed.ok THEN Return(defaultResult(rawText))
                               ELSE LET sections == parsed.val.items
                                    IN  IF MapThrows(sections)
                                        THEN Return(defaultResult(rawText))
                                        ELSE Return(StructuredDocument(sections,
                                                        Join(SectionTexts(sections))))

\* The texts handed to the detector.
DetectInputs ==
    {EmptyText, Doc(99, (10 :> ".")), Doc(100, (10 :> ".")), Doc(100, (50 :> "\n")),
     Doc(8000, (7999 :> ".")), Doc(8001, (8000 :> "."))}

\* The contents the heading collaborator can answer with.
DetectResponses ==
    {Str(s) : s \in
       {<<>>, <<" ", "\n">>, <<"x", "x">>, <<"[", "]">>, <<"]", "[">>, <<"[", "S">>,
        <<"[", "S", "]">>, <<" ", "[", "S", ",", " ", "T", "]", "\n">>,
        <<"[", "S", ",", "]">>, <<"[", "S", "T", "]">>, <<"[", "{", "]">>,
        <<"[", "x", "]">>, <<"[", "n", "]">>, <<"[", "1", "]">>, <<"[", "[", "S", "]", "]">>,
        <<"x", "[", "S", "]">>, <<"[", "T", "]", "x">>, <<"x", " ", "[", "S", ",", "T", "]", " ", "x">>,
        <<"[", "x", "]", " ", "[", "S", "]">>, <<"[", "S", "]", " ", "[", "x", "]">>,
        <<"]", " ", "[", "S", "]">>, <<"[", "S", "]", " ", "[">>,
        <<"[", "S", "]", ",", "[", "T", "]">>}}

DetectOutcomes == {CollabThrow, CollabNone} \cup {CollabText(t) : t \in DetectResponses}

PendingDocument == [kind |-> "pending", value |-> StructuredDocument(<<>>, EmptyText)]

\* The call returns defaultResult at one of the two early returns.
DetectSkip ==
    /\ detectPc = "idle"
    /\ DetectSkips(detectRawText, GROQ_API_KEY)
    /\ detectResult' = Return(defaultResult(detectRawText))
    /\ detectPc' = "done"
    /\ UNCHANGED <<notDetect, GROQ_API_KEY, detectRawText, detectCalls, detectCollab>>

\* The collaborator is awaited with the first MAX_CHARS characters.
DetectCall ==
    /\ detectPc = "idle"
    /\ ~DetectSkips(detectRawText, GROQ_API_KEY)
    /\ detectCalls' = Append(detectCalls, textToProcess(detectRawText))
    /\ detectPc' = "call"
    /\ UNCHANGED <<notDetect, GROQ_API_KEY, detectRawText, detectCollab, detectResult>>

\* The collaborator settles and the function returns.
DetectDone ==
    /\ detectPc = "call"
    /\ \E collab \in DetectOutcomes :
         /\ detectCollab' = Append(detectCollab, collab)
         /\ detectResult' = detectFromResponse(detectRawText, collab)
    /\ detectPc' = "done"
    /\ UNCHANGED <<notDetect, GROQ_API_KEY, detectRawText, detectCalls>>

DetectIdle ==
    /\ detectPc = "idle"
    /\ detectRawText = EmptyText
    /\ detectCalls = <<>>
    /\ detectCollab = <<>>
    /\ detectResult = PendingDocument

(***************************************************************************)
(* Pixel operations: applyDilation, applyErosion, closing, opening and     *)
(* applyAdaptiveThreshold.                                                 *)
(*                                                                         *)
(* An image is what sharp(buffer).raw().toBuffer() decodes: width, height, *)
(* channels and the bytes data[0 .. width*height*channels - 1], pixel      *)
(* (x, y) starting at (y * width + x) * channels.  Every operation returns *)
(* its bytes as a PNG, which the next decode gives back unchanged.         *)
(***************************************************************************)
RawImage(width, height, channels, data) ==
    [width |-> width, height |-> height, channels |-> channels, data |-> data]

NoImage == RawImage(0, 0, 1, <<>>)

\* Math.floor(kernelSize / 2)
Half(kernelSize) == kernelSize \div 2

\* The offsets dy, dx of the kernel loops.
KernelOffsets(kernelSize) == (-Half(kernelSize))..Half(kernelSize)

\* ny >= 0 && ny < height && nx >= 0 && nx < width
InBounds(img, nx, ny) == ny >= 0 /\ ny < img.height /\ nx >= 0 /\ nx < img.width

\* idx = (y * width + x) * channels
PixelIndex(img, x, y) == (y * img.width + x) * img.channels

\* The pixels of an image, as <<x, y>>.
Pixels(img) == (0..(img.width - 1)) \X (0..(img.height - 1))

\* The byte indices of data.
ByteIndices(img) == 0..(img.width * img.height * img.channels - 1)

\* data[idx] < 128
IsDark(img, x, y) == img.data[PixelIndex(img, x, y)] < 128

\* Kernel loops that test only the rows against the image bounds.
PaintedAroundAlt(img, kernelSize, x, y) ==
    {PixelIndex(img, x + dx, y + dy) + c :
        dx \in KernelOffsets(kernelSize),
        dy \in {d \in KernelOffsets(kernelSize) : y + d >= 0 /\ y + d < img.height},
        c \in 0..(img.channels - 1)}

\* The bytes the kernel loops of applyDilation set to 0 for the dark source
\* pixel (x, y).
PaintedAround(img, kernelSize, x, y) ==
    {PixelIndex(img, n[1], n[2]) + c :
        n \in {m \in {<<x + dx, y + dy>> : dx \in KernelOffsets(kernelSize),
                                           dy \in KernelOffsets(kernelSize)} :
                  InBounds(img, m[1], m[2])},
        c \in 0..(img.channels - 1)}

\* A dilation that paints nothing around the dark pixels.
applyDilationAlt(img, kernelSize) == img

\* applyDilation: the output starts all 255; every dark source pixel sets
\* the bytes of its in-bounds neighbourhood to 0.
applyDilation(img, kernelSize) ==
    LET painted == UNION {PaintedAround(img, kernelSize, p[1], p[2]) :
                            p \in {q \in Pixels(img) : IsDark(img, q[1], q[2])}}
    IN  RawImage(img.width, img.height, img.channels,
                 [i \in ByteIndices(img) |-> IF i \in painted THEN 0 ELSE 255])

\* An erosion that lets an out-of-bounds neighbour count as dark.
OutOfBoundsClearsAllBlackAlt == FALSE

\* The else branch of the bounds test in applyErosion: allBlack = false.
OutOfBoundsClearsAllBlack == TRUE

\* allBlack after the kernel loops of applyErosion for the pixel (x, y).
AllBlack(img, kernelSize, x, y) ==
    \A dy \in KernelOffsets(kernelSize) : \A dx \in KernelOffsets(kernelSize) :
        IF InBounds(img, x + dx, y + dy)
        THEN ~(img.data[PixelIndex(img, x + dx, y + dy)] >= 128)
        ELSE ~OutOfBoundsClearsAllBlack

\* applyErosion: the output starts all 255; a pixel whose allBlack survives
\* has all its channels set to 0.
applyErosion(img, kernelSize) ==
    RawImage(img.width, img.height, img.channels,
             [i \in ByteIndices(img) |->
                 LET pixel == i \div img.channels
                 IN  IF AllBlack(img, kernelSize, pixel % img.width, pixel \div img.width)
                     THEN 0 ELSE 255])

\* Erosion followed by dilation.
applyMorphologicalClosingAlt(img, kernelSize) ==
    applyDilation(applyErosion(img, kernelSize), kernelSize)

\* applyMorphologicalClosing: dilation, then erosion of the dilated image.
applyMorphologicalClosing(img, kernelSize) ==
    applyErosion(applyDilation(img, kernelSize), kernelSize)

\* Dilation followed by erosion.
applyMorphologicalOpeningAlt(img, kernelSize) ==
    applyErosion(applyDilation(img, kernelSize), kernelSize)

\* applyMorphologicalOpening: erosion, then dilation of the eroded image.
applyMorphologicalOpening(img, kernelSize) ==
    applyDilation(applyErosion(img, kernelSize), kernelSize)

\* integral[Y * (width + 1) + X]: the sum of the first channel over the
\* pixels (x, y) with x < X and y < Y.
RECURSIVE RowPrefix(_, _, _)
RowPrefix(img, X, y) ==
    IF X = 0 THEN 0 ELSE RowPrefix(img, X - 1, y) + img.data[PixelIndex(img, X - 1, y)]

RECURSIVE Integral(_, _, _)
Integral(img, X, Y) ==
    IF Y = 0 THEN 0 ELSE Integral(img, X, Y - 1) + RowPrefix(img, X, Y - 1)

\* The clipped window of the pixel (x, y).
Window(img, blockSz, x, y) ==
    LET halfBlock == blockSz \div 2
    IN  [x1 |-> IF x - halfBlock > 0 THEN x - halfBlock ELSE 0,
         y1 |-> IF y - halfBlock > 0 THEN y - halfBlock ELSE 0,
         x2 |-> IF x + halfBlock < img.width - 1 THEN x + halfBlock ELSE img.width - 1,
         y2 |-> IF y + halfBlock < img.height - 1 THEN y + halfBlock ELSE img.height - 1]

\* area = (x2 - x1 + 1) * (y2 - y1 + 1)
WindowArea(win) == (win.x2 - win.x1 + 1) * (win.y2 - win.y1 + 1)

\* A table read that takes the corner (x2, y2) where (x2 + 1, y2 + 1) is
\* meant.
WindowSumAlt(img, win) ==
    Integral(img, win.x2, win.y2) - Integral(img, win.x1, win.y2)
        - Integral(img, win.x2, win.y1) + Integral(img, win.x1, win.y1)

\* sum: the four reads of the integral table.
WindowSum(img, win) ==
    Integral(img, win.x2 + 1, win.y2 + 1) - Integral(img, win.x1, win.y2 + 1)
        - Integral(img, win.x2 + 1, win.y1) + Integral(img, win.x1, win.y1)

\* newValue = pixelValue > localMean - C ? 255 : 0, with localMean =
\* sum / area.  The comparison is made on integers, (pixelValue + C) * area
\* > sum: sum / area is an exact multiple of 1 / area within the precision
\* of a double, so the two agree.
NewValue(img, blockSz, C, x, y) ==
    LET win  == Window(img, blockSz, x, y)
        area == WindowArea(win)
        sum  == WindowSum(img, win)
    IN  IF (img.data[PixelIndex(img, x, y)] + C) * area > sum THEN 255 ELSE 0

\* A channel loop that writes the first channel only (the rest keep the 0
\* of Buffer.alloc).
ThresholdChannelValueAlt(c, newValue) == IF c = 0 THEN newValue ELSE 0

\* outputData[idx + c] = newValue
ThresholdChannelValue(c, newValue) == newValue

applyAdaptiveThreshold(img, blockSz, C) ==
    RawImage(img.width, img.height, img.channels,
             [i \in ByteIndices(img) |->
                 LET pixel == i \div img.channels
                 IN  ThresholdChannelValue(i % img.channels,
                        NewValue(img, blockSz, C, pixel % img.width, pixel \div img.width))])

(***************************************************************************)
(* sendChatMessage (a call without attachments)                            *)
(*                                                                         *)
(* An error is its status (0 when the error has none) and its message, a   *)
(* sequence of characters, so that String.prototype.includes is computed   *)
(* on the message itself.                                                  *)
(***************************************************************************)
\* haystack.includes(needle)
Includes(haystack, needle) ==
    \E i \in 0..(Len(haystack) - Len(needle)) :
        SubSeq(haystack, i + 1, i + Len(needle)) = needle

ChatError(status, message) == [kind |-> "error", status |-> status, message |-> message]

\* throw new Error("No response generated from AI")
NoResponseError ==
    ChatError(0, <<"N", "o", " ", "r", "e", "s", "p", "o", "n", "s", "e", " ", "g", "e", "n", "e", "r", "a", "t", "e", "d", " ", "f", "r", "o", "m", " ", "A", "I">>)

\* The errors groq.chat.completions.create rejects with.
CollaboratorErrors ==
    {ChatError(429, <<"4", "2", "9", " ", "R", "a", "t", "e", " ", "l", "i", "m", "i", "t", " ", "r", "e", "a", "c", "h", "e", "d">>),
     ChatError(0, <<"r", "a", "t", "e", " ", "l", "i", "m", "i", "t", " ", "e", "x", "c", "e", "e", "d", "e", "d">>),
     ChatError(401, <<"I", "n", "v", "a", "l", "i", "d", " ", "A", "P", "I", " ", "K", "e", "y">>),
     ChatError(500, <<"I", "n", "t", "e", "r", "n", "a", "l", " ", "S", "e", "r", "v", "e", "r", " ", "E", "r", "r", "o", "r">>),
     ChatError(500, <<>>)}

\* completion.choices[0]?.message?.content: a text, an empty text, or none.
ChatContents == {[kind |-> "text", status |-> 0, message |-> <<"o", "k">>],
                 [kind |-> "text", status |-> 0, message |-> <<>>],
                 [kind |-> "none", status |-> 0, message |-> <<>>]}

ChatOutcomes == ChatContents \cup CollaboratorErrors

\* The error the catch block receives for a settled request (the call
\* returned when there is none).
CaughtError(outcome) ==
    IF outcome.kind = "error" THEN outcome
    ELSE NoResponseError

\* if (!responseText)
HasResponse(outcome) == outcome.kind = "text" /\ outcome.message # <<>>

\* error.status === 429 || message.includes("rate") || message.includes("limit")
IsRateLimited(error) ==
    \/ error.status = 429
    \/ Includes(error.message, <<"r", "a", "t", "e">>)
    \/ Includes(error.message, <<"l", "i", "m", "i", "t">>)

\* error.message?.includes("API key") || error.status === 401
IsKeyError(error) ==
    \/ Includes(error.message, <<"A", "P", "I", " ", "k", "e", "y">>)
    \/ error.status = 401

\* The two throw statements that end the catch block.
ChatRethrow(error) ==
    IF IsKeyError(error) THEN [kind |-> "throw", value |-> <<"key error">>]
    ELSE IF error.message # <<>> THEN [kind |-> "throw", value |-> error.message]
    ELSE [kind |-> "throw", value |-> <<"default error">>]

ChatPending == [kind |-> "pending", value |-> <<>>]

\* The call (or the recursive call after the backoff) enters the function:
\* without a key it throws, otherwise it awaits the collaborator.
ChatEnter ==
    /\ chatPc \in {"idle", "backoff"}
    /\ IF ~GROQ_API_KEY
       THEN /\ chatResult' = [kind |-> "throw", value |-> <<"no key">>]
            /\ chatPc' = "done"
       ELSE /\ chatPc' = "call"
            /\ chatResult' = chatResult
    /\ UNCHANGED <<notChat, GROQ_API_KEY, chatLog>>

\* The collaborator settles: the text is returned, or the catch block
\* starts the backoff timer, or it throws.
ChatSettle ==
    /\ chatPc = "call"
    /\ Len(chatLog) < MaxChatCalls
    /\ \E outcome \in ChatOutcomes :
         /\ chatLog' = Append(chatLog, outcome)
         /\ IF HasResponse(outcome)
            THEN /\ chatResult' = [kind |-> "return", value |-> outcome.message]
                 /\ chatPc' = "done"
            ELSE IF IsRateLimited(CaughtError(outcome))
            THEN /\ chatPc' = "backoff"
                 /\ chatResult' = chatResult
            ELSE /\ chatResult' = ChatRethrow(CaughtError(outcome))
                 /\ chatPc' = "done"
    /\ UNCHANGED <<notChat, GROQ_API_KEY>>

ChatIdle ==
    /\ chatPc = "idle"
    /\ chatLog = <<>>
    /\ chatResult = ChatPending

\* How the input images encode a dark and a light pixel: one channel with
\* 0 and 255, or three channels whose first holds 127 and 128 and whose
\* other two hold a value on the other side of 128.
PixelStyles ==
    {[channels |-> 1, dark |-> 0, light |-> 255, darkRest |-> 0, lightRest |-> 255],
     [channels |-> 3, dark |-> 127, light |-> 128, darkRest |-> 200, lightRest |-> 50]}

\* The image of the given size whose dark pixels are those of darkSet.
ImageOf(width, height, darkSet, style) ==
    RawImage(width, height, style.channels,
             [i \in 0..(width * height * style.channels - 1) |->
                 LET pixel == i \div style.channels
                     isDark == <<pixel % width, pixel \div width>> \in darkSet
                 IN  IF i % style.channels = 0
                     THEN (IF isDark THEN style.dark ELSE style.light)
                     ELSE (IF isDark THEN style.darkRest ELSE style.lightRest)])

\* The widths and heights of the input images, as <<width, height>>.
ImageSizes ==
    {sz \in (1..MaxPixels) \X (1..MaxPixels) : sz[1] * sz[2] <= MaxPixels}

\* The images handed to the operations.
InputImages ==
    UNION {{ImageOf(sz[1], sz[2], darkSet, style) :
               darkSet \in SUBSET ((0..(sz[1] - 1)) \X (0..(sz[2] - 1))),
               style \in PixelStyles} :
           sz \in ImageSizes}

\* The kernel sizes preprocessImageForOCR passes to closing and opening.
KernelSizes == {closingKernelSize(a) : a \in {1, 2}} \cup {openingKernelSize(a) : a \in {1, 2}}

\* The blockSize and C applyAdaptiveThreshold is called with, and a block
\* of 3 pixels, whose window is not clipped inside an image.
ThresholdParams ==
    {<<blockSize(a), thresholdC(a)>> : a \in {1, 2}} \cup {<<3, thresholdC(1)>>}

ImageOp(name, size, C) == [name |-> name, size |-> size, C |-> C]

ImageDilate ==
    /\ imgOp.name = "none"
    /\ \E k \in KernelSizes :
         /\ imgOp' = ImageOp("dilation", k, 0)
         /\ imgOut' = applyDilation(imgIn, k)
    /\ UNCHANGED <<notImage, GROQ_API_KEY, imgIn>>

ImageErode ==
    /\ imgOp.name = "none"
    /\ \E k \in KernelSizes :
         /\ imgOp' = ImageOp("erosion", k, 0)
         /\ imgOut' = applyErosion(imgIn, k)
    /\ UNCHANGED <<notImage, GROQ_API_KEY, imgIn>>

ImageClose ==
    /\ imgOp.name = "none"
    /\ \E k \in KernelSizes :
         /\ imgOp' = ImageOp("closing", k, 0)
         /\ imgOut' = applyMorphologicalClosing(imgIn, k)
    /\ UNCHANGED <<notImage, GROQ_API_KEY, imgIn>>

ImageOpen ==
    /\ imgOp.name = "none"
    /\ \E k \in KernelSizes :
         /\ imgOp' = ImageOp("opening", k, 0)
         /\ imgOut' = applyMorphologicalOpening(imgIn, k)
    /\ UNCHANGED <<notImage, GROQ_API_KEY, imgIn>>

ImageThreshold ==
    /\ imgOp.name = "none"
    /\ \E bc \in ThresholdParams :
         /\ imgOp' = ImageOp("threshold", bc[1], bc[2])
         /\ imgOut' = applyAdaptiveThreshold(imgIn, bc[1], bc[2])
    /\ UNCHANGED <<notImage, GROQ_API_KEY, imgIn>>

ImageIdle ==
    /\ imgIn = NoImage
    /\ imgOp = ImageOp("none", 0, 0)
    /\ imgOut = NoImage

(***************************************************************************)
(* estimateSkewAngle                                                       *)
(*                                                                         *)
(* sharp's rotate is a collaborator: for each test angle it gives some     *)
(* rotated image, or rejects.  A variance is kept as the exact fraction    *)
(* num / den and compared by cross-multiplication.                         *)
(***************************************************************************)
testAngles == <<-5, -4, -3, -2, -1, 0, 1, 2, 3, 4, 5>>

\* rowSums: for each row y, the number of pixels with rotData[idx] < 128.
RowSums(img) ==
    [row \in 1..img.height |->
        Cardinality({x \in 0..(img.width - 1) : IsDark(img, x, row - 1)})]

RECURSIVE SumOf(_)
SumOf(seq) == IF seq = <<>> THEN 0 ELSE Head(seq) + SumOf(Tail(seq))

Fraction(num, den) == [num |-> num, den |-> den]

\* mean = sum / n; variance = sum of (val - mean)^2 / n, which is
\* (n * sum of val^2 - (sum of val)^2) / n^2.
Variance(rowSums) ==
    LET n == Len(rowSums)
        squares == [k \in 1..n |-> rowSums[k] * rowSums[k]]
    IN  Fraction(n * SumOf(squares) - SumOf(rowSums) * SumOf(rowSums), n * n)

\* A comparison that also takes a variance equal to the maximum.
ExceedsAlt(variance, maximum) == variance.num * maximum.den >= maximum.num * variance.den

\* variance > maxVariance
Exceeds(variance, maximum) == variance.num * maximum.den > maximum.num * variance.den

\* The images rotate can give for a test angle: a blank one, one whose top
\* row alone is dark, and a larger one whose top row alone is dark.
RotatedImages ==
    LET style == CHOOSE st \in PixelStyles : st.channels = 3
    IN  {ImageOf(2, 2, {}, style), ImageOf(2, 2, {<<0, 0>>, <<1, 0>>}, style),
         ImageOf(3, 3, {<<0, 0>>, <<1, 0>>, <<2, 0>>}, style)}

\* The first decode settles: the loop starts, or the catch block returns 0.
SkewStart ==
    /\ skewPc = "idle"
    /\ \E decoded \in BOOLEAN :
         IF decoded
         THEN /\ skewPc' = "loop"
              /\ bestAngle' = 0
              /\ maxVariance' = Fraction(0, 1)
              /\ skewResult' = skewResult
         ELSE /\ skewPc' = "done"
              /\ skewResult' = 0
              /\ UNCHANGED <<bestAngle, maxVariance>>
    /\ UNCHANGED <<notSkew, GROQ_API_KEY, skewSeen>>

\* One pass of the loop over testAngles: the rotation settles, the variance
\* of the rotated image's row sums is compared with maxVariance; after the
\* last angle bestAngle is returned.  A rejection goes to the catch block.
SkewAngleDone ==
    /\ skewPc = "loop"
    /\ \E rotated \in RotatedImages \cup {NoImage} :
         IF rotated = NoImage
         THEN /\ skewPc' = "done"
              /\ skewResult' = 0
              /\ UNCHANGED <<skewSeen, bestAngle, maxVariance>>
         ELSE LET angle == testAngles[Len(skewSeen) + 1]
                  variance == Variance(RowSums(rotated))
                  better == Exceeds(variance, maxVariance)
                  best == IF better THEN angle ELSE bestAngle
              IN  /\ skewSeen' = Append(skewSeen, variance)
                  /\ maxVariance' = IF better THEN variance ELSE maxVariance
                  /\ bestAngle' = best
                  /\ IF Len(skewSeen) + 1 = Len(testAngles)
                     THEN skewPc' = "done" /\ skewResult' = best
                     ELSE skewPc' = "loop" /\ skewResult' = skewResult
    /\ UNCHANGED <<notSkew, GROQ_API_KEY>>

SkewIdle ==
    /\ skewPc = "idle"
    /\ skewSeen = <<>>
    /\ bestAngle = 0
    /\ maxVariance = Fraction(0, 1)
    /\ skewResult = 0

(***************************************************************************)
(* GeminiKeyManager                                                        *)
(*                                                                         *)
(* A key is known by its position in keys, 0 stands for null.  The field   *)
(* currentIndex is written and never read, and is left out.  The methods   *)
(* are synchronous, so each call is one step.                              *)
(***************************************************************************)
COOLDOWN_DURATION == 60000

MAX_FAILURES == 3

NoKey == 0

ApiKeyState(isAvailable, lastUsed, failureCount, cooldownUntil) ==
    [isAvailable |-> isAvailable, lastUsed |-> lastUsed,
     failureCount |-> failureCount, cooldownUntil |-> cooldownUntil]

\* loadKeys with the given number of environment variables set.
loadKeys(count) == [k \in 1..count |-> ApiKeyState(TRUE, 0, 0, 0)]

\* A scan that never skips a key for its cooldown.
OnCooldownAlt(keyState, time) == FALSE

\* keyState.cooldownUntil > now
OnCooldown(keyState, time) == keyState.cooldownUntil > time

\* timeSinceLastUse < 1000 && this.keys.length > 1
UsedRecently(keyState, time, count) == time - keyState.lastUsed < 1000 /\ count > 1

\* The loop of getNextAvailableKey from position i on: the keys as the loop
\* leaves them, the key returned and the keys it recovered from cooldown.
RECURSIVE ScanKeys(_, _, _, _)
ScanKeys(keyStates, i, time, recovered) ==
    IF i > Len(keyStates)
    THEN [keys |-> keyStates, key |-> NoKey, recovered |-> recovered]
    ELSE LET keyState == keyStates[i]
         IN  IF OnCooldown(keyState, time)
             THEN ScanKeys(keyStates, i + 1, time, recovered)
             ELSE LET recovers == keyState.cooldownUntil <= time /\ ~keyState.isAvailable
                      checked == IF recovers
                                 THEN [keyState EXCEPT !.isAvailable = TRUE,
                                                       !.failureCount = 0]
                                 ELSE keyState
                      after == [keyStates EXCEPT ![i] = checked]
                      seen == IF recovers THEN recovered \cup {i} ELSE recovered
                  IN  IF checked.isAvailable
                      THEN IF UsedRecently(checked, time, Len(keyStates))
                           THEN ScanKeys(after, i + 1, time, seen)
                           ELSE [keys |-> [after EXCEPT ![i].lastUsed = time],
                                 key |-> i, recovered |-> seen]
                      ELSE ScanKeys(after, i + 1, time, seen)

getNextAvailableKey(keyStates, time) ==
    IF Len(keyStates) = 0
    THEN [keys |-> keyStates, key |-> NoKey, recovered |-> {}]
    ELSE ScanKeys(keyStates, 1, time, {})

markKeySuccess(keyStates, key) ==
    [keyStates EXCEPT ![key].failureCount = 0, ![key].isAvailable = TRUE]

\* The messages of the errors generateContent rejects with.
GeminiErrors ==
    {<<"q", "u", "o", "t", "a", " ", "e", "x", "c", "e", "e", "d", "e", "d">>,
     <<"4", "2", "9", " ", "r", "a", "t", "e", " ", "l", "i", "m", "i", "t">>,
     <<"5", "0", "3", " ", "u", "n", "a", "v", "a", "i", "l", "a", "b", "l", "e">>}

\* error?.includes("quota") || error?.includes("rate limit")
IsQuotaError(error) ==
    \/ Includes(error, <<"q", "u", "o", "t", "a">>)
    \/ Includes(error, <<"r", "a", "t", "e", " ", "l", "i", "m", "i", "t">>)

\* failureCount >= MAX_FAILURES after the increment.
ReachedMaxFailures(keyState) == keyState.failureCount + 1 >= MAX_FAILURES

markKeyFailure(keyStates, key, error, time) ==
    LET counted == [keyStates[key] EXCEPT !.failureCount = @ + 1]
        cooled == IF ReachedMaxFailures(keyStates[key])
                  THEN [counted EXCEPT !.isAvailable = FALSE,
                                       !.cooldownUntil = time + COOLDOWN_DURATION]
                  ELSE counted
        limited == IF IsQuotaError(error)
                   THEN [cooled EXCEPT !.isAvailable = FALSE,
                                       !.cooldownUntil = time + COOLDOWN_DURATION * 2]
                   ELSE cooled
    IN  [keyStates EXCEPT ![key] = limited]

\* The keys getStatus counts as available: isAvailable && cooldownUntil <= now.
AvailableKeys(keyStates, time) ==
    {k \in 1..Len(keyStates) :
        keyStates[k].isAvailable /\ keyStates[k].cooldownUntil <= time}

KeyCall(op, key, error, offCooldown, expired, cooled) ==
    [op |-> op, key |-> key, error |-> error, offCooldown |-> offCooldown,
     expired |-> expired, cooled |-> cooled]

NoCall == KeyCall("none", NoKey, <<>>, {}, {}, FALSE)

geminiCallVars == <<gemPc, gemKey, gemTried, gemResult>>

\* A concurrent request calls getNextAvailableKey.
KeyAcquire ==
    /\ \A k \in 1..Len(keys) : inFlight[k] < MaxInFlight
    /\ LET got == getNextAvailableKey(keys, now)
           expired == {k \in cooling : keys[k].cooldownUntil <= now}
       IN  /\ keys' = got.keys
           /\ keyCall' = KeyCall("getNextAvailableKey", got.key, <<>>,
                                 {k \in 1..Len(keys) : keys[k].cooldownUntil <= now},
                                 expired, FALSE)
           /\ inFlight' = [k \in 1..Len(keys) |->
                              IF k = got.key THEN inFlight[k] + 1 ELSE inFlight[k]]
           /\ plainSince' = [k \in 1..Len(keys) |->
                                IF k \in got.recovered THEN 0 ELSE plainSince[k]]
           /\ cooling' = cooling \ expired
    /\ UNCHANGED <<notGemini, GROQ_API_KEY, now, geminiCallVars>>

\* A request that holds a key reports its success.
KeyReportSuccess ==
    /\ \E k \in 1..Len(keys) :
         /\ inFlight[k] > 0
         /\ keys' = markKeySuccess(keys, k)
         /\ keyCall' = KeyCall("markKeySuccess", k, <<>>, {}, {}, FALSE)
         /\ inFlight' = [inFlight EXCEPT ![k] = @ - 1]
         /\ plainSince' = [plainSince EXCEPT ![k] = 0]
    /\ UNCHANGED <<notGemini, GROQ_API_KEY, now, cooling, geminiCallVars>>

\* A request that holds a key reports its failure.
KeyReportFailure ==
    /\ \E k \in 1..Len(keys) : \E error \in GeminiErrors :
         /\ inFlight[k] > 0
         /\ keys' = markKeyFailure(keys, k, error, now)
         /\ keyCall' = KeyCall("markKeyFailure", k, error, {}, {},
                               ReachedMaxFailures(keys[k]))
         /\ inFlight' = [inFlight EXCEPT ![k] = @ - 1]
         /\ plainSince' = [plainSince EXCEPT ![k] =
                              IF IsQuotaError(error) THEN @ ELSE @ + 1]
         /\ cooling' = IF keys'[k].cooldownUntil # keys[k].cooldownUntil
                       THEN cooling \cup {k} ELSE cooling
    /\ UNCHANGED <<notGemini, GROQ_API_KEY, now, geminiCallVars>>

\* Time passes.
ClockAdvance ==
    /\ now + ClockStep <= MaxNow
    /\ now' = now + ClockStep
    /\ UNCHANGED <<notGemini, GROQ_API_KEY, keys, inFlight, keyCall, plainSince,
                   cooling, geminiCallVars>>

(***************************************************************************)
(* analyzeImageWithGemini                                                  *)
(***************************************************************************)
\* The message returned when getGeminiClient gives null.
NoKeyMessage == <<"no API key configured">>

\* The text of a response.
AnalysisText == <<"text">>

\* new Error(`... ${error.message}`)
AnalysisError(error) == <<"analysis failed">> \o error

Attempt(key, failed, others) == [key |-> key, failed |-> failed, others |-> others]

GeminiPending == [kind |-> "pending", value |-> <<>>]

managerTraceVars == <<inFlight, keyCall, plainSince, cooling>>

\* The call, or its recursive call, from getGeminiClient() up to the await
\* of generateContent, on the key states given.
GeminiEnter(keyStates) ==
    LET clientResult == getNextAvailableKey(keyStates, now)
    IN  /\ keys' = clientResult.keys
        /\ gemKey' = clientResult.key
        /\ IF clientResult.key = NoKey
           THEN gemPc' = "done" /\ gemResult' = [kind |-> "return", value |-> NoKeyMessage]
           ELSE gemPc' = "generate" /\ gemResult' = GeminiPending

\* A request calls analyzeImageWithGemini.
GeminiStart ==
    /\ gemPc \in {"idle", "done"}
    /\ GeminiEnter(keys)
    /\ gemTried' = <<>>
    /\ UNCHANGED <<notGemini, GROQ_API_KEY, now, managerTraceVars>>

\* generateContent answers: markKeySuccess, and the text is returned.
GeminiSucceed ==
    /\ gemPc = "generate"
    /\ keys' = markKeySuccess(keys, gemKey)
    /\ gemTried' = Append(gemTried, Attempt(gemKey, FALSE, {}))
    /\ gemResult' = [kind |-> "return", value |-> AnalysisText]
    /\ gemPc' = "done"
    /\ UNCHANGED <<notGemini, GROQ_API_KEY, now, gemKey, managerTraceVars>>

\* retryResult && retryResult.key !== key
RetriesOnAnotherKey(retryKey, key) == retryKey # NoKey /\ retryKey # key

\* generateContent rejects: the catch block reports the failure, asks for a
\* client again and either calls the function again or throws.
GeminiFail ==
    /\ gemPc = "generate"
    /\ \E error \in GeminiErrors :
         LET marked == markKeyFailure(keys, gemKey, error, now)
             retryResult == getNextAvailableKey(marked, now)
         IN  /\ gemTried' = Append(gemTried,
                     Attempt(gemKey, TRUE, AvailableKeys(marked, now) \ {gemKey}))
             /\ IF RetriesOnAnotherKey(retryResult.key, gemKey)
                THEN GeminiEnter(retryResult.keys)
                ELSE /\ keys' = retryResult.keys
                     /\ gemPc' = "done"
                     /\ gemResult' = [kind |-> "throw", value |-> AnalysisError(error)]
                     /\ UNCHANGED gemKey
    /\ UNCHANGED <<notGemini, GROQ_API_KEY, now, managerTraceVars>>

GeminiIdle ==
    /\ keys = <<>>
    /\ now = ClockStep
    /\ inFlight = <<>>
    /\ keyCall = NoCall
    /\ plainSince = <<>>
    /\ cooling = {}
    /\ gemPc = "idle"
    /\ gemKey = NoKey
    /\ gemTried = <<>>
    /\ gemResult = GeminiPending

OcrIdle ==
    /\ ocrPc = [r \in RequestIds |-> "idle"]
    /\ preCalls = [r \in RequestIds |-> <<>>]
    /\ preOut = [r \in RequestIds |-> <<>>]
    /\ recCalls = [r \in RequestIds |-> <<>>]
    /\ recOut = [r \in RequestIds |-> <<>>]
    /\ ocrRawText = [r \in RequestIds |-> EmptyText]
    /\ corrCalls = [r \in RequestIds |-> <<>>]
    /\ corrOut = [r \in RequestIds |-> <<>>]
    /\ ocrResult = [r \in RequestIds |-> Pending]

vars == <<GROQ_API_KEY, ocrVars, mergeVars, detectVars, chatVars, imageVars, skewVars, geminiVars>>

\* One extraction request, with or without a configured API key.
InitOCR ==
    /\ GROQ_API_KEY \in BOOLEAN
    /\ requests = {1}
    /\ OcrIdle
    /\ MergeIdle
    /\ DetectIdle
    /\ ChatIdle
    /\ ImageIdle
    /\ SkewIdle
    /\ GeminiIdle

NextOCR ==
    \E r \in RequestIds :
        \/ OcrStart(r)
        \/ OcrPreprocessDone(r)
        \/ OcrRecognizeDone(r)
        \/ OcrCorrectDone(r)

SpecOCR == InitOCR /\ [][NextOCR]_vars

\* Several extraction requests that run at the same time: any of them
\* takes the next step.
InitOCRConcurrent ==
    /\ GROQ_API_KEY \in BOOLEAN
    /\ requests = RequestIds
    /\ OcrIdle
    /\ MergeIdle
    /\ DetectIdle
    /\ ChatIdle
    /\ ImageIdle
    /\ SkewIdle
    /\ GeminiIdle

SpecOCRConcurrent == InitOCRConcurrent /\ [][NextOCR]_vars

\* One call of smartMergeMultiPagePDF on any of the input documents.
InitMerge ==
    /\ GROQ_API_KEY \in BOOLEAN
    /\ requests = {}
    /\ OcrIdle
    /\ mergePc = "idle"
    /\ mergeRawText \in MergeInputs
    /\ chunks = <<>>
    /\ processedChunks = <<>>
    /\ chunkCollab = <<>>
    /\ mergeLog = <<>>
    /\ mergeResult = Pending
    /\ DetectIdle
    /\ ChatIdle
    /\ ImageIdle
    /\ SkewIdle
    /\ GeminiIdle

NextMerge ==
    \/ MergeSkip
    \/ MergeSingleStart
    \/ MergeSingleDone
    \/ MergeSplit
    \/ MergeChunkDone

SpecMerge == InitMerge /\ [][NextMerge]_vars

\* One call of detectHeadingsFromText on any of the input texts.
InitDetect ==
    /\ GROQ_API_KEY \in BOOLEAN
    /\ requests = {}
    /\ OcrIdle
    /\ MergeIdle
    /\ detectPc = "idle"
    /\ detectRawText \in DetectInputs
    /\ detectCalls = <<>>
    /\ detectCollab = <<>>
    /\ detectResult = PendingDocument
    /\ ChatIdle
    /\ ImageIdle
    /\ SkewIdle
    /\ GeminiIdle

NextDetect ==
    \/ DetectSkip
    \/ DetectCall
    \/ DetectDone

SpecDetect == InitDetect /\ [][NextDetect]_vars

\* One call of sendChatMessage, with or without a configured API key.
InitChat ==
    /\ GROQ_API_KEY \in BOOLEAN
    /\ requests = {}
    /\ OcrIdle
    /\ MergeIdle
    /\ DetectIdle
    /\ ChatIdle
    /\ ImageIdle
    /\ SkewIdle
    /\ GeminiIdle

NextChat ==
    \/ ChatEnter
    \/ ChatSettle

SpecChat == InitChat /\ [][NextChat]_vars

\* One image operation applied to any of the input images.
InitImage ==
    /\ GROQ_API_KEY = TRUE
    /\ requests = {}
    /\ OcrIdle
    /\ MergeIdle
    /\ DetectIdle
    /\ ChatIdle
    /\ imgIn \in InputImages
    /\ imgOp = ImageOp("none", 0, 0)
    /\ imgOut = NoImage
    /\ SkewIdle
    /\ GeminiIdle

NextImage ==
    \/ ImageDilate
    \/ ImageErode
    \/ ImageClose
    \/ ImageOpen
    \/ ImageThreshold

SpecImage == InitImage /\ [][NextImage]_vars

\* One call of estimateSkewAngle.
InitSkew ==
    /\ GROQ_API_KEY = TRUE
    /\ requests = {}
    /\ OcrIdle
    /\ MergeIdle
    /\ DetectIdle
    /\ ChatIdle
    /\ ImageIdle
    /\ SkewIdle
    /\ GeminiIdle

NextSkew ==
    \/ SkewStart
    \/ SkewAngleDone

SpecSkew == InitSkew /\ [][NextSkew]_vars

\* The key manager after construction, with up to MaxKeys keys configured.
InitKeys ==
    /\ GROQ_API_KEY = TRUE
    /\ requests = {}
    /\ OcrIdle
    /\ MergeIdle
    /\ DetectIdle
    /\ ChatIdle
    /\ ImageIdle
    /\ SkewIdle
    /\ \E count \in 0..MaxKeys :
         /\ keys = loadKeys(count)
         /\ inFlight = [k \in 1..count |-> 0]
         /\ plainSince = [k \in 1..count |-> 0]
    /\ now = ClockStep
    /\ keyCall = NoCall
    /\ cooling = {}
    /\ gemPc = "idle"
    /\ gemKey = NoKey
    /\ gemTried = <<>>
    /\ gemResult = GeminiPending

\* Concurrent requests on the key manager, in any interleaving.
NextKeys ==
    \/ KeyAcquire
    \/ KeyReportSuccess
    \/ KeyReportFailure
    \/ ClockAdvance

SpecKeys == InitKeys /\ [][NextKeys]_vars

\* Calls of analyzeImageWithGemini, one after the other.
NextGemini ==
    \/ GeminiStart
    \/ GeminiSucceed
    \/ GeminiFail
    \/ ClockAdvance

SpecGemini == InitKeys /\ [][NextGemini]_vars

\* Any one call of the entry points.
Init == InitOCR \/ InitOCRConcurrent \/ InitMerge \/ InitDetect \/ InitChat \/ InitImage
          \/ InitSkew \/ InitKeys

Next == NextOCR \/ NextMerge \/ NextDetect \/ NextChat \/ NextImage \/ NextSkew
          \/ NextKeys \/ NextGemini

Spec == Init /\ [][Next]_vars

(***************************************************************************)
(* Properties of the chunked merger (checked under SpecMerge).             *)
(***************************************************************************)
RECURSIVE ConcatAll(_)
ConcatAll(parts) ==
    IF parts = <<>> THEN EmptyText ELSE Concat(parts[1], ConcatAll(Tail(parts)))

RECURSIVE TotalLen(_)
TotalLen(parts) == IF parts = <<>> THEN 0 ELSE parts[1].len + TotalLen(Tail(parts))

\* Where part number k (from 1) starts in Join(parts).
JoinOffset(parts, k) == TotalLen(SubSeq(parts, 1, k - 1)) + Separator.len * (k - 1)

\* The call went through the splitting loop.
WasSplit ==
    /\ GROQ_API_KEY
    /\ mergePc \in {"chunk", "done"}
    /\ mergeRawText.len > MAX_CHARS_PER_CHUNK

\* What the code is to give for chunk number k (from 1), from the chunk and
\* from what the collaborator did for it.
ChunkFailed(k) ==
    chunkCollab[k].kind \in {"throw", "none"} \/ Trim(chunkCollab[k].text).len = 0

ChunkResult(k) == IF ChunkFailed(k) THEN chunks[k] ELSE Trim(chunkCollab[k].text)

\* C1: for a text longer than 6000 characters (with a configured key, so
\* that the splitting loop runs), the chunks concatenated in order are exactly
\* the original text, no chunk is empty, and the chunk lengths add up to the
\* text's length: every character is in exactly one chunk.
C1_ChunksReproduceText ==
    (mergePc # "idle" /\ GROQ_API_KEY /\ mergeRawText.len > MAX_CHARS_PER_CHUNK)
        => /\ chunks # <<>>
           /\ \A k \in 1..Len(chunks) : chunks[k].len > 0
           /\ TotalLen(chunks) = mergeRawText.len
           /\ ConcatAll(chunks) = mergeRawText

\* A text cut into three chunks, the first two ending after a '.' or a
\* newline before the chunk-size boundary.
C1_Witness ==
    /\ WasSplit
    /\ Len(chunks) = 3
    /\ chunks[1].len < MAX_CHARS_PER_CHUNK
    /\ CharAt(chunks[1], chunks[1].len - 1) \in BreakChars
    /\ ConcatAll(chunks) = mergeRawText

\* C6: when the collaborator throws or answers nothing for chunk i, the
\* result pushed for chunk i is the raw chunk, every other chunk's result is
\* the collaborator's (trimmed) answer for it, the merged text holds chunk
\* i's raw text at position i, and the merge returns rather than throws.
C6_ChunkFailureFallsBackToRaw ==
    /\ mergeResult.kind # "throw"
    /\ WasSplit =>
         /\ Len(processedChunks) <= Len(chunks)
         /\ \A k \in 1..Len(processedChunks) :
              /\ ChunkFailed(k) => processedChunks[k] = chunks[k]
              /\ ~ChunkFailed(k) => processedChunks[k] = Trim(chunkCollab[k].text)
    /\ (WasSplit /\ mergePc = "done") =>
         /\ mergeResult.kind = "return"
         /\ Len(processedChunks) = Len(chunks)
         /\ \A k \in 1..Len(chunks) :
              ChunkFailed(k) =>
                 Slice(mergeResult.value, JoinOffset(processedChunks, k),
                       JoinOffset(processedChunks, k) + chunks[k].len) = chunks[k]

\* A finished merge of three chunks where the collaborator threw for the
\* second, answered only white space for the third and answered the first.
C6_Witness ==
    /\ WasSplit /\ mergePc = "done"
    /\ Len(chunks) = 3
    /\ chunkCollab[1].kind = "text" /\ ~ChunkFailed(1)
    /\ chunkCollab[2].kind = "throw"
    /\ chunkCollab[3].kind = "text" /\ ChunkFailed(3)
    /\ processedChunks[2] = chunks[2]
    /\ processedChunks[3] = chunks[3]

\* C7: the merged text is the per-chunk results in chunk order with a
\* blank line between neighbours, whichever chunks failed; the collaborator
\* calls are strictly sequential (start 0, finish 0, start 1, finish 1, ...),
\* each with its own chunk; and exactly the first call is tagged isFirst and
\* exactly the last isLast.
C7_OrderedSequentialMerge ==
    WasSplit =>
      /\ \A k \in 1..Len(mergeLog) :
           /\ mergeLog[k].ev = (IF k % 2 = 1 THEN "start" ELSE "finish")
           /\ mergeLog[k].i = (k - 1) \div 2
           /\ mergeLog[k].fn = "cleanPDFChunk"
           /\ mergeLog[k].i < Len(chunks)
           /\ mergeLog[k].chunk = chunks[mergeLog[k].i + 1]
           /\ mergeLog[k].isFirst <=> (mergeLog[k].i = 0)
           /\ mergeLog[k].isLast <=> (mergeLog[k].i = Len(chunks) - 1)
      /\ \A k \in 1..Len(processedChunks) : processedChunks[k] = ChunkResult(k)
      /\ mergePc = "done" =>
           /\ Len(mergeLog) = 2 * Len(chunks)
           /\ mergeResult = Return(Join([k \in 1..Len(chunks) |-> ChunkResult(k)]))
           /\ \A k \in 1..Len(chunks) :
                LET at == JoinOffset(processedChunks, k)
                IN  /\ Slice(mergeResult.value, at, at + ChunkResult(k).len) = ChunkResult(k)
                    /\ k < Len(chunks) =>
                          Slice(mergeResult.value, at + ChunkResult(k).len,
                                at + ChunkResult(k).len + 2) = Str(<<"\n", "\n">>)

\* A finished merge of three chunks with three different results: an
\* answer, a failure, another answer.
C7_Witness ==
    /\ WasSplit /\ mergePc = "done"
    /\ Len(chunks) = 3
    /\ ~ChunkFailed(1) /\ ChunkFailed(2) /\ ~ChunkFailed(3)
    /\ ChunkResult(1) # ChunkResult(3)
    /\ mergeResult.value = Join(<<ChunkResult(1), chunks[2], ChunkResult(3)>>)

\* C8: without a configured API key, or for a text shorter than 50
\* characters, the merge returns its input unchanged and calls no
\* collaborator.
C8_MergeNoOp ==
    (~GROQ_API_KEY \/ mergeRawText.len < 50) =>
        /\ mergeLog = <<>>
        /\ chunkCollab = <<>>
        /\ mergePc \in {"idle", "done"}
        /\ mergePc = "done" => mergeResult = Return(mergeRawText)

\* The 3000-character text, no key configured, returned identical.
C8_Witness ==
    /\ mergePc = "done"
    /\ ~GROQ_API_KEY
    /\ mergeRawText.len = 3000
    /\ mergeRawText.marks # <<>>
    /\ mergeResult = Return(mergeRawText)
    /\ mergeLog = <<>>

(***************************************************************************)
(* Properties of the heading detector (checked under SpecDetect).          *)
(***************************************************************************)
\* The single-section fallback for the text raw.
IsSingleSectionFallback(doc, raw) ==
    /\ Len(doc.sections) = 1
    /\ doc.sections[1].type = "main"
    /\ doc.sections[1].content = raw
    /\ doc.plainText = raw

\* The response holds no JSON array, or what the detector extracts is
\* malformed.
NoUsableArray(collab) ==
    LET responseText == Trim(collab.text)
    IN  \/ ~MatchArray(responseText).found
        \/ ~JSONparse(MatchArray(responseText).text).ok

\* C10: detectHeadingsFromText never throws, and it returns the
\* single-section fallback when the key is missing, the text is shorter
\* than 100 characters, the collaborator throws or answers nothing, or the
\* response holds no JSON array or a malformed one.
C10_DetectFallback ==
    /\ detectResult.kind # "throw"
    /\ detectPc = "done" =>
         /\ detectResult.kind = "return"
         /\ (~GROQ_API_KEY \/ detectRawText.len < 100) =>
               /\ detectCalls = <<>>
               /\ IsSingleSectionFallback(detectResult.value, detectRawText)
         /\ \A k \in 1..Len(detectCollab) :
               (\/ detectCollab[k].kind \in {"throw", "none"}
                \/ Trim(detectCollab[k].text).len = 0
                \/ NoUsableArray(detectCollab[k]))
                  => IsSingleSectionFallback(detectResult.value, detectRawText)

\* A response with prose and an opening bracket but no closing one.
C10_Witness ==
    /\ detectPc = "done"
    /\ Len(detectCollab) = 1
    /\ detectCollab[1].kind = "text"
    /\ Trim(detectCollab[1].text).len > 0
    /\ ~MatchArray(Trim(detectCollab[1].text)).found
    /\ \E i \in DOMAIN detectCollab[1].text.marks : detectCollab[1].text.marks[i] = "["
    /\ IsSingleSectionFallback(detectResult.value, detectRawText)

(***************************************************************************)
(* Properties of the OCR path (checked under SpecOCR).                     *)
(***************************************************************************)
\* Recognition number k of request r returned a text.
RecReturned(r, k) == Len(recOut[r]) >= k /\ recOut[r][k].kind = "text"

\* ... and that text, trimmed, is empty or shorter than 3 characters.
RecShort(r, k) == RecReturned(r, k) /\ Trim(recOut[r][k].text).len < 3

PreprocessThrew(r) == \E k \in 1..Len(preOut[r]) : preOut[r][k].threw

RecognizeThrew(r) == \E k \in 1..Len(recOut[r]) : recOut[r][k].kind = "throw"

\* C2: extractTextFromImageWithOCR never throws: its promise settles only
\* by returning, and whenever preprocessing, recognition or correction
\* raised into it, at attempt 1 or 2, what it returns is the 'extraction
\* failed' sentinel.
C2_RecognizeNeverThrows ==
    \A r \in requests :
        /\ ocrResult[r].kind # "throw"
        /\ ocrPc[r] = "done" <=> ocrResult[r].kind = "return"
        /\ (PreprocessThrew(r) \/ RecognizeThrew(r)
              \/ \E k \in 1..Len(corrOut[r]) : corrOut[r][k].out.kind = "throw")
             => /\ ocrPc[r] = "done"
                /\ ocrResult[r] = Return(FAILED_SENTINEL)

\* The recognition engine throws at the second attempt.
C2_Witness ==
    \E r \in requests :
        /\ ocrPc[r] = "done"
        /\ Len(recOut[r]) = 2
        /\ recOut[r][2].kind = "throw"
        /\ ocrResult[r] = Return(FAILED_SENTINEL)

\* C3 as claimed: no invocation of preprocessImageForOCR, at either attempt
\* and whatever stages fail, ends by raising.
C3_PreprocessNeverRaises ==
    \A r \in requests : \A k \in 1..Len(preOut[r]) : ~preOut[r][k].threw

\* C4 as claimed: every call runs preprocessing with attempt 1 and one
\* recognition; preprocessing with attempt 2 and a second recognition run
\* if and only if the first recognition's trimmed text is shorter than 3
\* characters; each is invoked at most twice, never attempt 2 before attempt
\* 1; and when the first text is too short and the second is not,
\* preprocessing ran exactly twice and the text returned is the one built
\* from the attempt-2 text.
C4_RetryProtocol ==
    \A r \in requests :
        /\ preCalls[r] \in {<<>>, <<1>>, <<1, 2>>}
        /\ Len(recCalls[r]) <= 2
        /\ \A k \in 1..Len(recCalls[r]) : recCalls[r][k].attempt = k
        /\ ocrPc[r] = "done" =>
             /\ Len(preCalls[r]) >= 1 /\ Len(recCalls[r]) >= 1
             /\ (Len(preCalls[r]) = 2) <=> RecShort(r, 1)
             /\ (Len(recCalls[r]) = 2) <=> RecShort(r, 1)
             /\ (RecShort(r, 1) /\ RecReturned(r, 2) /\ ~RecShort(r, 2)) =>
                  /\ preCalls[r] = <<1, 2>>
                  /\ corrCalls[r] = <<Trim(recOut[r][2].text)>>
                  /\ ocrResult[r] = Return(Concat(OCR_HEADER, corrOut[r][1].out.value))
                  /\ corrOut[r][1].out.value # Trim(recOut[r][2].text)
                        => corrOut[r][1].called

\* C5: when both recognitions returned a text that is, trimmed, shorter
\* than 3 characters, the call returns (not throws) the 'no readable text'
\* sentinel, which differs from the 'extraction failed' sentinel, and the
\* corrector was not invoked.
C5_NoTextSentinel ==
    \A r \in requests :
        (RecShort(r, 1) /\ RecShort(r, 2)) =>
            /\ ocrPc[r] = "done"
            /\ ocrResult[r] = Return(NO_TEXT_SENTINEL)
            /\ ocrResult[r].value # FAILED_SENTINEL
            /\ corrCalls[r] = <<>>
            /\ corrOut[r] = <<>>

\* Empty text at the first attempt, two letters at the second.
C5_Witness ==
    \E r \in requests :
        /\ RecShort(r, 1) /\ RecShort(r, 2)
        /\ Trim(recOut[r][1].text).len = 0
        /\ Trim(recOut[r][2].text).len = 2
        /\ ocrResult[r] = Return(NO_TEXT_SENTINEL)

\* C9: correctArabicOCRText never throws; it returns its input unmodified,
\* without calling the collaborator, when no key is configured or the input
\* is shorter than 5 characters, and unmodified as well when the
\* collaborator throws or answers nothing; only a collaborator answer that
\* is not empty once trimmed replaces the input.
C9_CorrectorDegrades ==
    \A r \in requests : \A k \in 1..Len(corrOut[r]) :
        LET c == corrOut[r][k]
            answered == c.called /\ c.collab.kind = "text" /\ Trim(c.collab.text).len > 0
        IN  /\ c.out.kind = "return"
            /\ c.input = corrCalls[r][k]
            /\ c.called <=> (GROQ_API_KEY /\ c.input.len >= 5)
            /\ ~answered => c.out.value = c.input
            /\ answered => c.out.value = Trim(c.collab.text)

\* The collaborator throws on an input of 5 characters or more.
C9_Witness ==
    \E r \in requests : \E k \in 1..Len(corrOut[r]) :
        /\ corrOut[r][k].called
        /\ corrOut[r][k].collab.kind = "throw"
        /\ corrOut[r][k].input.len >= 5
        /\ corrOut[r][k].out = Return(corrOut[r][k].input)
        /\ ocrResult[r] = Return(Concat(OCR_HEADER, corrOut[r][k].input))

(***************************************************************************)
(* Extraction of the JSON array from a response with surrounding text      *)
(* (checked under SpecDetect).                                             *)
(***************************************************************************)
\* The spans [i, j) of t that are the text of a well-formed, non-empty JSON
\* array whose elements are all section objects.
SectionArraySpans(t) ==
    {sp \in (0..t.len) \X (0..t.len) :
        /\ sp[1] < sp[2]
        /\ CharAt(t, sp[1]) = "["
        /\ CharAt(t, sp[2] - 1) = "]"
        /\ LET v == JSONparse(Slice(t, sp[1], sp[2]))
           IN  /\ v.ok
               /\ v.val.kind = "array"
               /\ Len(v.val.items) >= 1
               /\ \A k \in 1..Len(v.val.items) : v.val.items[k].kind = "object"}

\* The sections of the one well-formed array of sections in t.
SectionsOfOnlyArray(t) ==
    LET sp == CHOOSE x \in SectionArraySpans(t) : TRUE
    IN  JSONparse(Slice(t, sp[1], sp[2])).val.items

\* C11: when the response is one well-formed JSON array of sections with
\* any text before or after it, text with "[" or "]" in it included, the
\* detector returns the sections of that array and not the single-section
\* fallback.
C11_ExtractsFirstArray ==
    (detectPc = "done" /\ Len(detectCollab) = 1 /\ detectCollab[1].kind = "text")
        => LET responseText == Trim(detectCollab[1].text)
           IN  Cardinality(SectionArraySpans(responseText)) = 1
                  => /\ detectResult.kind = "return"
                     /\ detectResult.value.sections = SectionsOfOnlyArray(responseText)

\* The part of C11 the code keeps: when the text around the one array
\* holds no "[" before it and no "]" after it, its sections are returned.
C11_PlainSurroundingText ==
    (detectPc = "done" /\ Len(detectCollab) = 1 /\ detectCollab[1].kind = "text")
        => LET responseText == Trim(detectCollab[1].text)
               spans == SectionArraySpans(responseText)
               sp == CHOOSE x \in spans : TRUE
           IN  (/\ Cardinality(spans) = 1
                /\ \A i \in DOMAIN responseText.marks :
                      /\ (responseText.marks[i] = "[" => i >= sp[1])
                      /\ (responseText.marks[i] = "]" => i < sp[2]))
                  => /\ detectResult.kind = "return"
                     /\ detectResult.value.sections = SectionsOfOnlyArray(responseText)

(***************************************************************************)
(* Chunk boundaries (checked under SpecMerge).                             *)
(***************************************************************************)
\* The position in the text at which chunk k starts.
ChunkStart(k) == TotalLen(SubSeq(chunks, 1, k - 1))

\* The positions of "." and newline in the search window of a chunk that
\* starts at p: past the midpoint p + 3000, up to the boundary p + 6000.
BreaksInWindow(p) ==
    {i \in DOMAIN mergeRawText.marks :
        /\ mergeRawText.marks[i] \in {".", "\n"}
        /\ i > p + 3000
        /\ i <= p + 6000}

\* C12: every chunk but the last one of a text longer than 6000 characters
\* ends just after the last "." or newline of its search window when the
\* window holds one, and at p + 6000 only when the window holds none.
C12_BoundaryOnBreak ==
    WasSplit =>
        \A k \in 1..(Len(chunks) - 1) :
            LET p == ChunkStart(k)
                e == p + chunks[k].len
            IN  IF BreaksInWindow(p) # {}
                THEN e = Max(BreaksInWindow(p)) + 1
                ELSE e = p + 6000

\* A text of three chunks: the first is cut in mid-sentence at 6000 with no
\* break in its window, the second ends after a break that sits exactly
\* on its boundary.
C12_Witness ==
    /\ WasSplit
    /\ Len(chunks) = 3
    /\ BreaksInWindow(ChunkStart(1)) = {}
    /\ chunks[1].len = 6000
    /\ BreaksInWindow(ChunkStart(2)) # {}
    /\ Max(BreaksInWindow(ChunkStart(2))) = ChunkStart(2) + 6000
    /\ ChunkStart(3) = ChunkStart(2) + 6001

(***************************************************************************)
(* The fallback tiers of preprocessImageForOCR (checked under SpecOCR).    *)
(***************************************************************************)
\* C13: at attempt 1 and at attempt 2 alike, an invocation whose main
\* sequence throws tries the minimal sequence (grayscale, normalize,
\* sharpen) next, and the grayscale-only sequence only after the minimal
\* one has failed too.
C13_TwoTierFallback ==
    \A r \in requests : \A k \in 1..Len(preOut[r]) :
        Len(preOut[r][k].tiers) > 1
            => /\ preOut[r][k].tiers[1] = "full"
               /\ preOut[r][k].tiers[2] = "simplified"
               /\ Len(preOut[r][k].tiers) = 3 => preOut[r][k].tiers[3] = "grayscale"

\* The part of C13 the code keeps: the fallback of attempt 1.
C13_FirstAttemptFallback ==
    \A r \in requests : \A k \in 1..Len(preOut[r]) :
        (Len(preOut[r][k].tiers) > 1 /\ preOut[r][k].buffer.attempt = 1)
            => /\ preOut[r][k].tiers[2] = "simplified"
               /\ Len(preOut[r][k].tiers) = 3 => preOut[r][k].tiers[3] = "grayscale"

(***************************************************************************)
(* The retry of sendChatMessage (checked under SpecChat).                  *)
(***************************************************************************)
\* C14: a call of sendChatMessage retries at most once, so it sends at most
\* two requests to the collaborator, also when every request is answered
\* with a rate limit.
C14_AtMostOneRetry ==
    Len(chatLog) <= 2

\* The part of C14 the code keeps: a request is repeated only after a
\* failure the catch block takes for a rate limit, and a call that has
\* ended has returned a text or thrown.
C14_RetryOnlyAfterRateLimit ==
    /\ \A k \in 1..(Len(chatLog) - 1) :
          /\ ~HasResponse(chatLog[k])
          /\ IsRateLimited(CaughtError(chatLog[k]))
    /\ chatPc = "done" => chatResult.kind \in {"return", "throw"}

(***************************************************************************)
(* Properties of the pixel operations (checked under SpecImage).           *)
(***************************************************************************)
\* The dark pixels of an image.
DarkPixels(img) == {p \in Pixels(img) : IsDark(img, p[1], p[2])}

\* C15: opening with kernel size 3 of a buffer whose only dark pixel is a
\* single isolated speck has no dark pixel; and for every kernel size,
\* every pixel that is dark after opening was dark in the input.
C15_OpeningRemovesSpeck ==
    imgOp.name = "opening" =>
        /\ (imgOp.size = 3 /\ Cardinality(DarkPixels(imgIn)) = 1)
              => DarkPixels(imgOut) = {}
        /\ DarkPixels(imgOut) \subseteq DarkPixels(imgIn)

\* Opening with kernel 3 of a 3 x 3 buffer whose centre is the only dark
\* pixel: all 8 neighbours are white, and the result has no dark pixel.
C15_Witness ==
    /\ imgOp = ImageOp("opening", 3, 0)
    /\ imgIn.width = 3 /\ imgIn.height = 3
    /\ DarkPixels(imgIn) = {<<1, 1>>}
    /\ DarkPixels(imgOut) = {}
    /\ imgOut.width = 3 /\ imgOut.height = 3

\* An opening that keeps a stroke: a fully dark buffer wider and higher than
\* the kernel keeps its inner pixels, so the subset above is not vacuous.
C15_KeepsInterior ==
    /\ imgOp = ImageOp("opening", 3, 0)
    /\ DarkPixels(imgIn) = Pixels(imgIn)
    /\ DarkPixels(imgOut) # {}

\* The one-pixel gaps of the strokes of an image: the white pixels that have
\* a dark pixel on both sides along their row, or along their column.
GapPixels(img) ==
    {p \in Pixels(img) \ DarkPixels(img) :
        \/ {<<p[1] - 1, p[2]>>, <<p[1] + 1, p[2]>>} \subseteq DarkPixels(img)
        \/ {<<p[1], p[2] - 1>>, <<p[1], p[2] + 1>>} \subseteq DarkPixels(img)}

\* The pixels in the first or last row or column.
BorderPixels(img) ==
    {p \in Pixels(img) :
        p[1] = 0 \/ p[2] = 0 \/ p[1] = img.width - 1 \/ p[2] = img.height - 1}

\* C16 as claimed: closing with kernel size 3 makes the gap pixel of every
\* interrupted stroke dark, wherever in the buffer the stroke lies.
C16_ClosingFillsGap ==
    imgOp = ImageOp("closing", 3, 0) => GapPixels(imgIn) \subseteq DarkPixels(imgOut)

\* C16 as amended: closing with kernel size 3 makes the gap pixel dark when
\* the gap is not in the first or last row or column of the buffer; a gap
\* in the first or last row or column stays white.
C16_ClosingFillsInnerGap ==
    imgOp = ImageOp("closing", 3, 0) =>
        /\ (GapPixels(imgIn) \ BorderPixels(imgIn)) \subseteq DarkPixels(imgOut)
        /\ (GapPixels(imgIn) \cap BorderPixels(imgIn)) \cap DarkPixels(imgOut) = {}

\* A 3 x 3 buffer whose middle row is a stroke with its centre missing:
\* closing makes the centre dark.
C16_Witness ==
    /\ imgOp = ImageOp("closing", 3, 0)
    /\ imgIn.width = 3 /\ imgIn.height = 3
    /\ DarkPixels(imgIn) = {<<0, 1>>, <<2, 1>>}
    /\ GapPixels(imgIn) = {<<1, 1>>}
    /\ <<1, 1>> \in DarkPixels(imgOut)

\* Every pixel of the image has the same first-channel value.
IsUniform(img) ==
    \A p \in Pixels(img) : \A q \in Pixels(img) :
        img.data[PixelIndex(img, p[1], p[2])] = img.data[PixelIndex(img, q[1], q[2])]

\* C17: the buffer applyAdaptiveThreshold returns has the width, height and
\* channel count of its input, every byte of it is 0 or 255, the channels of
\* a pixel are equal, and for a uniform input every pixel, the border
\* pixels with their clipped windows included, has the same value.
C17_ThresholdMask ==
    imgOp.name = "threshold" =>
        /\ imgOut.width = imgIn.width
        /\ imgOut.height = imgIn.height
        /\ imgOut.channels = imgIn.channels
        /\ DOMAIN imgOut.data = DOMAIN imgIn.data
        /\ \A i \in DOMAIN imgOut.data : imgOut.data[i] \in {0, 255}
        /\ \A p \in Pixels(imgOut) : \A c \in 0..(imgOut.channels - 1) :
              imgOut.data[PixelIndex(imgOut, p[1], p[2]) + c]
                 = imgOut.data[PixelIndex(imgOut, p[1], p[2])]
        /\ IsUniform(imgIn) => IsUniform(imgOut)

\* A uniform three-channel 3 x 3 image of gray level 127 thresholded with a
\* block of 3: the window of the centre has 9 pixels, that of a corner 4,
\* and all pixels come out alike.
C17_Witness ==
    /\ imgOp = ImageOp("threshold", 3, 8)
    /\ imgIn.width = 3 /\ imgIn.height = 3 /\ imgIn.channels = 3
    /\ \A p \in Pixels(imgIn) : imgIn.data[PixelIndex(imgIn, p[1], p[2])] = 127
    /\ IsUniform(imgOut)
    /\ imgOut.data[0] = 255
    /\ imgOut.data[2] = 255

\* A thresholded image that holds both values: a pixel darker than its
\* window's mean by more than C becomes 0.
C17_MixedOutput ==
    /\ imgOp.name = "threshold"
    /\ \E i \in DOMAIN imgOut.data : imgOut.data[i] = 0
    /\ \E i \in DOMAIN imgOut.data : imgOut.data[i] = 255

\* The positions of the square of radius r around the pixel p, inside the
\* image or not.
Square(p, r) == ((p[1] - r)..(p[1] + r)) \X ((p[2] - r)..(p[2] + r))

\* All channels of the pixel p hold the value v.
AllChannels(img, p, v) ==
    \A c \in 0..(img.channels - 1) : img.data[PixelIndex(img, p[1], p[2]) + c] = v

\* C19: after applyDilation(buffer, k) a pixel is 0 on all channels if some
\* pixel of the image within the square of radius floor(k/2) around it has
\* a first channel below 128 in the source, and 255 on all channels
\* otherwise.
C19_DilationGather ==
    imgOp.name = "dilation" =>
        /\ imgOut.width = imgIn.width /\ imgOut.height = imgIn.height
        /\ imgOut.channels = imgIn.channels
        /\ \A p \in Pixels(imgIn) :
              IF Square(p, imgOp.size \div 2) \cap DarkPixels(imgIn) # {}
              THEN AllChannels(imgOut, p, 0)
              ELSE AllChannels(imgOut, p, 255)

\* Dilation with kernel 3 of a 3 x 3 image whose only dark pixel is the
\* corner (0, 0): the neighbourhood is clipped at the border, and the four
\* pixels of the corner become dark.
C19_Witness ==
    /\ imgOp = ImageOp("dilation", 3, 0)
    /\ imgIn.width = 3 /\ imgIn.height = 3 /\ imgIn.channels = 3
    /\ DarkPixels(imgIn) = {<<0, 0>>}
    /\ DarkPixels(imgOut) = {<<0, 0>>, <<1, 0>>, <<0, 1>>, <<1, 1>>}

\* The distance of a pixel to the nearest border of the image.
BorderDistance(img, p) ==
    Min({p[1], p[2], img.width - 1 - p[1], img.height - 1 - p[2]})

\* C20: after applyErosion(buffer, k) a pixel is dark if and only if every
\* position of the square of radius floor(k/2) around it is inside the
\* image and dark in the source; so for k >= 2 every pixel closer than
\* floor(k/2) to a border is white.
C20_ErosionGather ==
    imgOp.name = "erosion" =>
        /\ imgOut.width = imgIn.width /\ imgOut.height = imgIn.height
        /\ imgOut.channels = imgIn.channels
        /\ \A p \in Pixels(imgIn) :
              IF Square(p, imgOp.size \div 2) \subseteq DarkPixels(imgIn)
              THEN AllChannels(imgOut, p, 0)
              ELSE AllChannels(imgOut, p, 255)
        /\ imgOp.size >= 2 =>
              \A p \in Pixels(imgIn) :
                  BorderDistance(imgIn, p) < imgOp.size \div 2
                      => AllChannels(imgOut, p, 255)

\* Erosion with kernel 3 of a fully dark 3 x 3 image: only the centre stays
\* dark, the eight border pixels become white.
C20_Witness ==
    /\ imgOp = ImageOp("erosion", 3, 0)
    /\ imgIn.width = 3 /\ imgIn.height = 3
    /\ DarkPixels(imgIn) = Pixels(imgIn)
    /\ DarkPixels(imgOut) = {<<1, 1>>}

(***************************************************************************)
(* Concurrent extraction requests (checked under SpecOCRConcurrent).       *)
(***************************************************************************)
\* What the request r does when it runs alone and its collaborators answer
\* as they answered r here (preOut[r], recOut[r], corrOut[r]): the string
\* returned and the numbers of preprocessing and recognition invocations.
SoloOutcome(result, pre, rec) == [result |-> result, pre |-> pre, rec |-> rec]

SoloCorrected(r, rawText) ==
    Return(Concat(OCR_HEADER,
                  correctArabicOCRText(rawText, GROQ_API_KEY, corrOut[r][1].collab).value))

SoloRun(r) ==
    IF preOut[r][1].threw THEN SoloOutcome(Return(FAILED_SENTINEL), 1, 0)
    ELSE IF recOut[r][1].kind = "throw" THEN SoloOutcome(Return(FAILED_SENTINEL), 1, 1)
    ELSE IF Trim(recOut[r][1].text).len >= 3
    THEN SoloOutcome(SoloCorrected(r, Trim(recOut[r][1].text)), 1, 1)
    ELSE IF preOut[r][2].threw THEN SoloOutcome(Return(FAILED_SENTINEL), 2, 1)
    ELSE IF recOut[r][2].kind = "throw" THEN SoloOutcome(Return(FAILED_SENTINEL), 2, 2)
    ELSE IF Trim(recOut[r][2].text).len >= 3
    THEN SoloOutcome(SoloCorrected(r, Trim(recOut[r][2].text)), 2, 2)
    ELSE SoloOutcome(Return(NO_TEXT_SENTINEL), 2, 2)

\* C18: when several requests interleave at their awaits, the string each
\* one returns and the numbers of its preprocessing and recognition
\* invocations are those of the same request run alone with the same
\* answers of its collaborators; and a step of one request changes nothing
\* of another one.
C18_RequestsIndependent ==
    \A r \in requests :
        ocrPc[r] = "done" =>
            /\ ocrResult[r] = SoloRun(r).result
            /\ Len(preCalls[r]) = SoloRun(r).pre
            /\ Len(recCalls[r]) = SoloRun(r).rec
            /\ Len(preOut[r]) = SoloRun(r).pre
            /\ \A q \in requests \ {r} :
                  ocrPc[q] = "idle" =>
                      /\ ocrRawText[q] = EmptyText
                      /\ preCalls[q] = <<>>
                      /\ recCalls[q] = <<>>

\* Two requests have ended: the first with the text of its only
\* recognition, the second, whose recognitions gave other texts, with the
\* text of its second recognition.
C18_Witness ==
    /\ requests = RequestIds
    /\ ocrPc[1] = "done" /\ ocrPc[2] = "done"
    /\ Len(recOut[1]) = 1 /\ Len(recOut[2]) = 2
    /\ corrOut[1] # <<>> /\ corrOut[2] # <<>>
    /\ corrOut[1][1].input = Trim(recOut[1][1].text)
    /\ corrOut[2][1].input = Trim(recOut[2][2].text)
    /\ corrOut[1][1].input # corrOut[2][1].input
    /\ ocrResult[1] = SoloRun(1).result
    /\ ocrResult[2] = SoloRun(2).result
    /\ ocrResult[1] # ocrResult[2]

\* The pixels of the image inside the square of radius r around p.
ClippedSquare(img, p, r) == Square(p, r) \cap Pixels(img)

\* The sum of the first-channel values over a set of pixels, added up
\* pixel by pixel.
RECURSIVE DirectSum(_, _)
DirectSum(img, pixelSet) ==
    IF pixelSet = {} THEN 0
    ELSE LET p == CHOOSE q \in pixelSet : TRUE
         IN  img.data[PixelIndex(img, p[1], p[2])] + DirectSum(img, pixelSet \ {p})

\* C21: for every pixel, with h = floor(blockSize / 2), the sum
\* applyAdaptiveThreshold reads from the integral table is the sum of the
\* first channel over the pixels of the image in [x-h, x+h] x [y-h, y+h],
\* the area is the number of those pixels, and the output is 255 exactly
\* when the pixel's value exceeds sum / area - C, and 0 otherwise.
C21_ThresholdWindow ==
    imgOp.name = "threshold" =>
        \A p \in Pixels(imgIn) :
            LET square == ClippedSquare(imgIn, p, imgOp.size \div 2)
                win    == Window(imgIn, imgOp.size, p[1], p[2])
                direct == DirectSum(imgIn, square)
                value  == imgIn.data[PixelIndex(imgIn, p[1], p[2])]
            IN  /\ WindowSum(imgIn, win) = direct
                /\ WindowArea(win) = Cardinality(square)
                /\ imgOut.data[PixelIndex(imgOut, p[1], p[2])]
                      = IF (value + imgOp.C) * Cardinality(square) > direct THEN 255 ELSE 0

\* A 3 x 3 image with one dark pixel in the corner, thresholded with a
\* block of 3: the corner's window is clipped to 4 pixels, the centre's
\* holds all 9, and the dark pixel alone comes out 0.
C21_Witness ==
    /\ imgOp = ImageOp("threshold", 3, 8)
    /\ imgIn.width = 3 /\ imgIn.height = 3 /\ imgIn.channels = 1
    /\ DarkPixels(imgIn) = {<<0, 0>>}
    /\ WindowArea(Window(imgIn, 3, 0, 0)) = 4
    /\ WindowArea(Window(imgIn, 3, 1, 1)) = 9
    /\ WindowSum(imgIn, Window(imgIn, 3, 0, 0)) = 3 * 255
    /\ DarkPixels(imgOut) = {<<0, 0>>}

(***************************************************************************)
(* The angle estimateSkewAngle returns (checked under SpecSkew).           *)
(***************************************************************************)
\* The loop ran over all test angles without a rejection.
SkewCompleted == skewPc = "done" /\ Len(skewSeen) = Len(testAngles)

\* Position k holds the largest of the variances computed.
IsMaximal(k) ==
    \A j \in 1..Len(skewSeen) :
        skewSeen[j].num * skewSeen[k].den <= skewSeen[k].num * skewSeen[j].den

\* The first test angle, in ascending order, whose variance is the largest.
FirstMaximalAngle == testAngles[Min({k \in 1..Len(skewSeen) : IsMaximal(k)})]

\* C22 as claimed: the angle returned is the first test angle, in ascending
\* order, whose rotated image has the largest variance of row dark counts,
\* also when all test angles have the same variance.
C22_FirstMaximalAngle ==
    SkewCompleted => skewResult = FirstMaximalAngle

\* C22 as amended: when the largest variance is above 0 the angle returned
\* is the first test angle, in ascending order, that has it; when every
\* test angle has variance 0 the angle returned is 0.
C22_FirstMaximalOrZero ==
    SkewCompleted =>
        IF \E k \in 1..Len(skewSeen) : skewSeen[k].num > 0
        THEN skewResult = FirstMaximalAngle
        ELSE skewResult = 0

\* The largest variance is found at the angles -3 and 2, and -3 is returned.
C22_Witness ==
    /\ SkewCompleted
    /\ {testAngles[k] : k \in {j \in 1..Len(skewSeen) : IsMaximal(j)}} = {-3, 2}
    /\ skewSeen[3].num > 0
    /\ skewResult = -3

(***************************************************************************)
(* The kernel sizes of the pipeline (checked under SpecImage).             *)
(***************************************************************************)
\* C23: every kernel size preprocessImageForOCR passes to closing or to
\* opening, at the first attempt and at the second, is odd: a closing or an
\* opening performed with a kernel size of the pipeline has an odd size.
C23_KernelSizesOdd ==
    \A attempt \in {1, 2} :
        (\/ imgOp = ImageOp("closing", closingKernelSize(attempt), 0)
         \/ imgOp = ImageOp("opening", openingKernelSize(attempt), 0))
            => imgOp.size % 2 = 1

(***************************************************************************)
(* The size of the chunks (checked under SpecMerge).                       *)
(***************************************************************************)
\* C24: every chunk the splitting loop of smartMergeMultiPagePDF produces
\* has at most MAX_CHARS_PER_CHUNK (6000) characters, wherever the "." and
\* newline characters of the text are.
C24_ChunkWithinMax ==
    WasSplit => \A k \in 1..Len(chunks) : chunks[k].len <= MAX_CHARS_PER_CHUNK

(***************************************************************************)
(* The detector keeps the document (checked under SpecDetect).             *)
(***************************************************************************)
\* C25: for a raw text that is not empty, whatever the collaborator
\* answers, detectHeadingsFromText returns a document with at least one
\* section and a plainText that is not empty.
C25_DocumentNotEmptied ==
    (detectPc = "done" /\ detectRawText.len > 0) =>
        /\ detectResult.kind = "return"
        /\ Len(detectResult.value.sections) >= 1
        /\ detectResult.value.plainText.len > 0

(***************************************************************************)
(* Closing and the ink of the input (checked under SpecImage).             *)
(***************************************************************************)
\* C26 as claimed: for every kernel size k >= 2, every pixel that is dark
\* in the input, on or near the border included, is dark after closing.
C26_ClosingExtensive ==
    (imgOp.name = "closing" /\ imgOp.size >= 2) =>
        DarkPixels(imgIn) \subseteq DarkPixels(imgOut)

\* C26 as amended: for every kernel size k >= 2, a pixel that is dark in
\* the input and at least floor(k/2) pixels away from every border is dark
\* after closing; a dark pixel closer than floor(k/2) to a border is white
\* after closing.
C26_ClosingExtensiveInside ==
    (imgOp.name = "closing" /\ imgOp.size >= 2) =>
        \A p \in DarkPixels(imgIn) :
            IF BorderDistance(imgIn, p) >= imgOp.size \div 2
            THEN AllChannels(imgOut, p, 0)
            ELSE AllChannels(imgOut, p, 255)

\* Closing with kernel 3 of a 3 x 3 buffer whose centre and one corner are
\* dark: the centre stays dark, the corner is erased.
C26_Witness ==
    /\ imgOp = ImageOp("closing", 3, 0)
    /\ imgIn.width = 3 /\ imgIn.height = 3
    /\ DarkPixels(imgIn) = {<<1, 1>>, <<0, 0>>}
    /\ DarkPixels(imgOut) = {<<1, 1>>}

(***************************************************************************)
(* Properties of the key manager (checked under SpecKeys).                 *)
(***************************************************************************)
\* C27: in every interleaving of the calls of concurrent requests and
\* advances of the clock, the key getNextAvailableKey returns is not on
\* cooldown: its cooldownUntil is not later than the current time.
C27_NeverReturnsCoolingKey ==
    (keyCall.op = "getNextAvailableKey" /\ keyCall.key # NoKey) =>
        /\ keys[keyCall.key].cooldownUntil <= now
        /\ keyCall.key \in keyCall.offCooldown

\* The first key is on cooldown and a success reported in the meantime has
\* set its isAvailable again; the scan passes it over and returns the second.
C27_Witness ==
    /\ keyCall.op = "getNextAvailableKey"
    /\ keyCall.key = 2
    /\ keys[1].cooldownUntil > now
    /\ keys[1].isAvailable

\* C28: a failure that is not a quota or rate-limit error puts its key on
\* cooldown only when it is at least the third such failure reported for
\* the key since the key's last markKeySuccess or recovery from cooldown;
\* and the first scan of getNextAvailableKey after the expiry of a key's
\* cooldown leaves the key available with failureCount 0.
C28_CooldownAfterThreeFailures ==
    /\ (keyCall.op = "markKeyFailure" /\ ~IsQuotaError(keyCall.error) /\ keyCall.cooled)
          => plainSince[keyCall.key] >= MAX_FAILURES
    /\ keyCall.op = "getNextAvailableKey" =>
          \A k \in keyCall.expired :
              keys[k].isAvailable /\ keys[k].failureCount = 0

\* C29: getNextAvailableKey returns null only when no key is configured or
\* every configured key is on cooldown (cooldownUntil > now).
C29_NullOnlyWhenAllCooling ==
    (keyCall.op = "getNextAvailableKey" /\ keyCall.key = NoKey) =>
        keyCall.offCooldown = {}

(***************************************************************************)
(* The retry of analyzeImageWithGemini (checked under SpecGemini).         *)
(***************************************************************************)
\* The keys the call made an attempt on.
TriedKeys == {gemTried[i].key : i \in 1..Len(gemTried)}

\* C30: when an attempt fails on a key while another configured key is
\* available and off cooldown, the call makes a further attempt, on a
\* different key, before it reports a failure; and when the call ends with
\* an error or with the 'no API key' message, every key that was available
\* and off cooldown at its last failure has been tried.
C30_RetriesOnOtherKeys ==
    (gemPc = "done" /\ gemResult.value # AnalysisText) =>
        \A i \in 1..Len(gemTried) :
            (gemTried[i].failed /\ gemTried[i].others # {}) =>
                /\ i < Len(gemTried)
                /\ gemTried[i + 1].key # gemTried[i].key
                /\ (i + 1 = Len(gemTried) /\ gemTried[i + 1].failed)
                      => gemTried[i].others \subseteq TriedKeys

====
